---- MODULE Spec2Model ----
(***************************************************************************)
(* Verification model of video-image-extractor.                            *)
(*                                                                         *)
(*   Spec      the Batch Scheduler (processVideosParallel) driving the     *)
(*             Single-Item Processor (processSingleVideo), extractor.js    *)
(*   SpecConc  concurrency resolution in processVideos and                 *)
(*             processVideosFromList, extractor.js                         *)
(*   SpecUp    uploadVideoFrames / uploadFilesBatch, gdrive.js             *)
(*   SpecSan   sanitizeFilename, utils.js                                  *)
(*   SpecFind  findVideoFiles and the output directory of each work item,  *)
(*             extractor.js                                                *)
(*   SpecUrls  readUrlsFromFile, downloader.js                             *)
(*   SpecDl    downloadAllVideos and its caller, downloader.js / index.js  *)
(*   SpecAll   uploadAllToGoogleDrive, gdrive.js                           *)
(*   SpecSort  the sorted file list of uploadVideoFrames, gdrive.js        *)
(*   SpecColab the command full of colab_helper.js                         *)
(*   SpecMain  main, index.js                                              *)
(*                                                                         *)
(* JavaScript runs one callback at a time: a processSingleVideo call runs  *)
(* synchronously up to its first await, and continuations (timers, child   *)
(* process events) run only while the scheduler itself is suspended.       *)
(***************************************************************************)
EXTENDS Integers, Sequences, FiniteSets, TLC

\* ---------------------------------------------------------------- bounds
MaxItems == 3
MaxConc == 2
MaxFrames == 1
MaxCpu == 6
MaxVideoCount == 8
MaxRequestLen == 2
MaxTailLen == 4
MaxReservedLen == 2
MaxFiles == 3
MaxUploadConc == 2
MaxRootEntries == 2
MaxLines == 3
MaxQualityLen == 2
MaxFolders == 2
MaxUrls == 3
MaxRewind == 3
MaxSortFrames == 11
MaxWaveSize == 10
MaxExitCode == 2
MaxRuns == 2

\* ------------------------------------------------------ program constants
maxRetries == 3
StaggerMs == 100
BackoffMs == 500
MaxNameLength == 100
DefaultDownloadConcurrency == 4
DownloadLimit == 3

VARIABLES
    \* processVideosParallel
    videos, concurrency, force, spc, i, bIdx, batchResults,
    results, completed, successCount, cachedCount, failCount, totalFrames,
    \* processSingleVideo, one activation per work item
    ipc, attempt, outcome, calls, delayMs, wait, exitCode,
    \* the items in the order in which their activations settled
    settleOrder,
    \* successive runs over the same output root: the number of the run, and how
    \* the latest extraction of each item in an earlier run ended
    run, prevExit,
    \* the output directories, one per work item
    dirExists, pngs, pngs0,
    \* processVideos / processVideosFromList: concurrency resolution
    cpuCount, videoCount, userConcurrency, cpc, resolved,
    \* sanitizeFilename: a name, and the results of applying it once and twice
    rawName, sanPc, once, twice,
    \* uploadVideoFrames / uploadFilesBatch on one local folder
    fileCount, otherEntries, deleteAfterUpload, uploadConcurrency,
    upc, ui, upload, upSuccessCount, upFailCount,
    onDisk, folderPresent, unlinkThrew, rmdirThrew, deletedCount, upResult,
    \* findVideoFiles on a directory tree, and the directories of the items found
    tree, allowed, fpc, found, outDirs,
    \* readUrlsFromFile on the content of a URL file
    fileLines, content, urlPc, urls,
    \* the URLs a dry run over the same file prints (in a one-element sequence)
    listed,
    \* downloadAllVideos, called by main in URL mode
    urlCount, dlRequest, dlConcurrency, dpc, di, fetch, attempts, dlResults, workList, started,
    \* uploadAllToGoogleDrive over the folders of the output directory
    folderFiles, allDelete, apc, ai, totalUploaded, totalFailed, totalDeleted, actual, allResult,
    \* main
    options, env, mpc, exitStatus, invoked,
    \* the file list of uploadVideoFrames: the frames written, and their sorted names
    frames, padWidth, waveSize, sortPc, sortedFiles,
    \* colab_helper.js, command full
    hpc, childCode, hDirs, hi, hCopied, hFailed, notCopied, localLeft, helperExit, hLog

concVars == <<cpuCount, videoCount, userConcurrency, cpc, resolved>>
sanVars == <<rawName, sanPc, once, twice>>
upVars == <<fileCount, otherEntries, deleteAfterUpload, uploadConcurrency,
            upc, ui, upload, upSuccessCount, upFailCount,
            onDisk, folderPresent, unlinkThrew, rmdirThrew, deletedCount, upResult>>
findVars == <<tree, allowed, fpc, found, outDirs>>
urlVars == <<fileLines, content, urlPc, urls, listed>>
dlVars == <<urlCount, dlRequest, dlConcurrency, dpc, di, fetch, attempts, dlResults,
            workList, started>>
allVars == <<folderFiles, allDelete, apc, ai, totalUploaded, totalFailed, totalDeleted,
             actual, allResult>>
mainVars == <<options, env, mpc, exitStatus, invoked>>
sortVars == <<frames, padWidth, waveSize, sortPc, sortedFiles>>
colabVars == <<hpc, childCode, hDirs, hi, hCopied, hFailed, notCopied, localLeft,
               helperExit, hLog>>

\* The variables of the batch run, of concurrency resolution, of the sanitizer
\* run and of the upload of one folder.
coreVars == <<videos, concurrency, force, spc, i, bIdx, batchResults, results, completed,
              successCount, cachedCount, failCount, totalFrames,
              ipc, attempt, outcome, calls, delayMs, wait, exitCode, settleOrder, run, prevExit,
    dirExists, pngs, pngs0,
              concVars, sanVars, upVars>>

\* What no step of a scan changes: the tree, the extensions, and the other components.
findFixed == <<tree, allowed, coreVars, urlVars, dlVars, allVars, mainVars, sortVars,
    colabVars>>

\* What no step of an upload changes: its arguments, and the other components.
upFixed == <<fileCount, otherEntries, deleteAfterUpload, uploadConcurrency, concVars, sanVars,
             findVars, urlVars, dlVars, allVars, mainVars,
             videos, concurrency, force, spc, i, bIdx, batchResults, results, completed,
             successCount, cachedCount, failCount, totalFrames,
             ipc, attempt, outcome, calls, delayMs, wait, exitCode, settleOrder, run, prevExit,
    dirExists, pngs, pngs0, sortVars,
    colabVars>>

\* What no step of the sanitizer run changes: the name, and the other components.
sanFixed == <<rawName, concVars, upVars, findVars, urlVars, dlVars, allVars, mainVars,
              videos, concurrency, force, spc, i, bIdx, batchResults, results, completed,
              successCount, cachedCount, failCount, totalFrames,
              ipc, attempt, outcome, calls, delayMs, wait, exitCode, settleOrder, run, prevExit,
    dirExists, pngs, pngs0, sortVars,
    colabVars>>

\* What no step of concurrency resolution changes: its inputs, and the other components.
concFixed == <<cpuCount, videoCount, userConcurrency, sanVars, upVars,
               findVars, urlVars, dlVars, allVars, mainVars,
               videos, concurrency, force, spc, i, bIdx, batchResults, results, completed,
               successCount, cachedCount, failCount, totalFrames,
               ipc, attempt, outcome, calls, delayMs, wait, exitCode, settleOrder, run, prevExit,
    dirExists, pngs, pngs0, sortVars,
    colabVars>>

\* What no step within a batch run changes: its arguments, the history of the
\* earlier runs, and the other components.
batchFixed == <<videos, concurrency, force, run, prevExit, concVars, sanVars, upVars,
                findVars, urlVars, dlVars, allVars, mainVars, sortVars,
    colabVars>>
schedVars == <<batchFixed, spc, i, bIdx, batchResults,
               results, completed, successCount, cachedCount, failCount, totalFrames>>
itemVars == <<ipc, attempt, outcome, calls, delayMs, wait, exitCode, settleOrder>>
fsVars == <<dirExists, pngs, pngs0>>
batchVars == <<schedVars, itemVars, fsVars>>

Min(a, b) == IF a < b THEN a ELSE b
Max(a, b) == IF a > b THEN a ELSE b

\* ---------------------------------------------------------------- helpers
Items == 1 .. videos

\* The outcome record of processSingleVideo; an absent field is the empty sequence.
NoOutcome ==
    [success |-> FALSE, cached |-> FALSE, index |-> 0 - 1,
     frameCount |-> <<>>, elapsedTime |-> <<>>, error |-> <<>>]

CachedOutcome(k, n) ==
    [success |-> TRUE, cached |-> TRUE, index |-> k - 1,
     frameCount |-> <<n>>, elapsedTime |-> <<"0.00">>, error |-> <<>>]

SuccessOutcome(k, n) ==
    [success |-> TRUE, cached |-> FALSE, index |-> k - 1,
     frameCount |-> <<n>>, elapsedTime |-> <<"measured">>, error |-> <<>>]

FailureOutcomeWithCount(k, msg) ==
    [success |-> FALSE, cached |-> FALSE, index |-> k - 1,
     frameCount |-> <<0>>, elapsedTime |-> <<>>, error |-> <<msg>>]

FailureOutcome(k, msg) ==
    [success |-> FALSE, cached |-> FALSE, index |-> k - 1,
     frameCount |-> <<>>, elapsedTime |-> <<>>, error |-> <<msg>>]

\* The external operations an activation has invoked so far.
NoCalls == {}

\* countExtractedFrames: the .png files of the directory, 0 when it cannot be read.
countExtractedFrames(k) == IF dirExists[k] THEN pngs[k] ELSE 0

\* An activation that is executing synchronously (between two awaits).
Running == \E k \in Items : ipc[k] \in {"check", "mkdir"}

\* Continuations run only while processVideosParallel is suspended or has ended.
Suspended == spc \in {"await", "aborted"} /\ ~Running

\* videos.slice(i, Math.min(i + concurrency, videos.length)), as 1-based items.
BatchEndOffByOne == Min(i + concurrency + 1, videos)
BatchEnd == Min(i + concurrency, videos)
Batch == (i + 1) .. BatchEnd
BatchLen == BatchEnd - i

\* Promise.all(batchPromises) fulfils when every promise of the batch has.
BatchSettledAny == \E k \in Batch : ipc[k] = "settled"
BatchSettled == \A k \in Batch : ipc[k] = "settled"
BatchRejected == \E k \in Batch : ipc[k] = "rejected"

\* ------------------------------------------------------------------- Init
InitBatch ==
    /\ videos \in 1 .. MaxItems
    /\ concurrency \in 1 .. Min(MaxConc, videos)
    /\ force \in BOOLEAN
    /\ spc = "loop"
    /\ i = 0
    /\ bIdx = 0
    /\ batchResults = <<>>
    /\ results = <<>>
    /\ completed = 0
    /\ successCount = 0
    /\ cachedCount = 0
    /\ failCount = 0
    /\ totalFrames = 0
    /\ ipc = [k \in 1 .. MaxItems |-> "idle"]
    /\ attempt = [k \in 1 .. MaxItems |-> 0]
    /\ outcome = [k \in 1 .. MaxItems |-> NoOutcome]
    /\ calls = [k \in 1 .. MaxItems |-> NoCalls]
    /\ delayMs = [k \in 1 .. MaxItems |-> <<>>]
    /\ wait = [k \in 1 .. MaxItems |-> <<>>]
    /\ exitCode = [k \in 1 .. MaxItems |-> "none"]
    /\ settleOrder = <<>>
    /\ run = 1
    /\ prevExit = [k \in 1 .. MaxItems |-> "none"]
    /\ pngs0 \in [1 .. MaxItems -> 0 .. MaxFrames]
    /\ \A k \in 1 .. MaxItems : k > videos => pngs0[k] = 0
    /\ pngs = pngs0
    \* An output directory is there at the start iff an earlier run left frames in it.
    /\ dirExists \in [1 .. MaxItems -> BOOLEAN]
    /\ \A k \in 1 .. MaxItems : dirExists[k] = (pngs0[k] > 0)

\* ------------------------------------------------- processVideosParallel
\* for (let i = 0; i < videos.length; i += concurrency)
LoopHead ==
    /\ spc = "loop"
    /\ IF i < videos
         THEN spc' = "dispatch" /\ bIdx' = 0
         ELSE spc' = "done" /\ bIdx' = bIdx
    /\ UNCHANGED <<batchFixed, i, batchResults, results, completed,
                   successCount, cachedCount, failCount, totalFrames>>
    /\ UNCHANGED <<itemVars, fsVars>>

\* batch.map((video, batchIndex) => processSingleVideo(video, i + batchIndex, ...)):
\* one call per step; the call runs to its first await before the next is made.
Dispatch ==
    /\ spc = "dispatch"
    /\ ~Running
    /\ bIdx < BatchLen
    /\ ipc' = [ipc EXCEPT ![i + bIdx + 1] = "check"]
    /\ bIdx' = bIdx + 1
    /\ UNCHANGED <<batchFixed, spc, i, batchResults, results, completed,
                   successCount, cachedCount, failCount, totalFrames>>
    /\ UNCHANGED <<attempt, outcome, calls, delayMs, wait, exitCode, settleOrder, fsVars>>

\* await Promise.all(batchPromises): the scheduler suspends.
AwaitAll ==
    /\ spc = "dispatch"
    /\ ~Running
    /\ bIdx >= BatchLen
    /\ spc' = "await"
    /\ UNCHANGED <<batchFixed, i, bIdx, batchResults, results, completed,
                   successCount, cachedCount, failCount, totalFrames>>
    /\ UNCHANGED <<itemVars, fsVars>>

\* The value of Promise.all(batchPromises): the outcomes in the order of the
\* promises, which is the order of the batch.
BatchOutcomesAsSettled ==
    LET order == SelectSeq(settleOrder, LAMBDA k : k \in Batch)
    IN  [n \in 1 .. BatchLen |-> outcome[order[n]]]
BatchOutcomes == [n \in 1 .. BatchLen |-> outcome[i + n]]

\* Promise.all fulfils with the outcomes in submission order.
BatchResolve ==
    /\ spc = "await"
    /\ ~Running
    /\ ~BatchRejected
    /\ BatchSettled
    /\ batchResults' = BatchOutcomes
    /\ bIdx' = 0
    /\ spc' = "accumulate"
    /\ UNCHANGED <<batchFixed, i, results, completed,
                   successCount, cachedCount, failCount, totalFrames>>
    /\ UNCHANGED <<itemVars, fsVars>>

\* Promise.all rejects with the first rejection; nothing catches it in
\* processVideosParallel, so the function ends by throwing.
BatchReject ==
    /\ spc = "await"
    /\ ~Running
    /\ BatchRejected
    /\ spc' = "aborted"
    /\ UNCHANGED <<batchFixed, i, bIdx, batchResults, results, completed,
                   successCount, cachedCount, failCount, totalFrames>>
    /\ UNCHANGED <<itemVars, fsVars>>

\* The totals after one result of the batch has been processed.
SuccessCountAlsoCached(r) == IF r.success THEN successCount + 1 ELSE successCount
NewSuccessCount(r) == IF r.success /\ ~r.cached THEN successCount + 1 ELSE successCount
NewCachedCount(r) == IF r.success /\ r.cached THEN cachedCount + 1 ELSE cachedCount
NewFailCount(r) == IF r.success THEN failCount ELSE failCount + 1
NewTotalFrames(r) == IF r.success THEN totalFrames + Head(r.frameCount) ELSE totalFrames

\* for (const result of batchResults) { completed++; results.push(result); ... }
Accumulate ==
    /\ spc = "accumulate"
    /\ bIdx < Len(batchResults)
    /\ LET result == batchResults[bIdx + 1] IN
        /\ completed' = completed + 1
        /\ results' = Append(results, result)
        /\ successCount' = NewSuccessCount(result)
        /\ cachedCount' = NewCachedCount(result)
        /\ failCount' = NewFailCount(result)
        /\ totalFrames' = NewTotalFrames(result)
    /\ bIdx' = bIdx + 1
    /\ UNCHANGED <<batchFixed, spc, i, batchResults>>
    /\ UNCHANGED <<itemVars, fsVars>>

\* End of the loop body: i += concurrency.
NextBatch ==
    /\ spc = "accumulate"
    /\ bIdx >= Len(batchResults)
    /\ i' = i + concurrency
    /\ spc' = "loop"
    /\ UNCHANGED <<batchFixed, bIdx, batchResults, results, completed,
                   successCount, cachedCount, failCount, totalFrames>>
    /\ UNCHANGED <<itemVars, fsVars>>

\* processVideosParallel has returned its totals to processVideos (or to
\* processVideosFromList), which prints the summary line "Done: ..." and returns.
PrintSummary ==
    /\ spc = "done"
    /\ spc' = "summary"
    /\ UNCHANGED <<batchFixed, i, bIdx, batchResults, results, completed,
                   successCount, cachedCount, failCount, totalFrames>>
    /\ UNCHANGED <<itemVars, fsVars>>

\* processVideosParallel has thrown: processVideos rejects, and the catch block
\* of main prints the error and calls process.exit(1).
MainCatch ==
    /\ spc = "aborted"
    /\ ~Running
    /\ spc' = "exited"
    /\ UNCHANGED <<batchFixed, i, bIdx, batchResults, results, completed,
                   successCount, cachedCount, failCount, totalFrames>>
    /\ UNCHANGED <<itemVars, fsVars>>

\* The run has ended and the command is given again, with the same arguments,
\* over the same output root: the directories are as the run left them.
Rerun ==
    /\ spc \in {"summary", "exited"}
    /\ run < MaxRuns
    /\ run' = run + 1
    /\ prevExit' = [k \in 1 .. MaxItems |->
                       IF exitCode[k] # "none" THEN exitCode[k] ELSE prevExit[k]]
    /\ pngs0' = pngs
    /\ spc' = "loop"
    /\ i' = 0
    /\ bIdx' = 0
    /\ batchResults' = <<>>
    /\ results' = <<>>
    /\ completed' = 0
    /\ successCount' = 0
    /\ cachedCount' = 0
    /\ failCount' = 0
    /\ totalFrames' = 0
    /\ ipc' = [k \in 1 .. MaxItems |-> "idle"]
    /\ attempt' = [k \in 1 .. MaxItems |-> 0]
    /\ outcome' = [k \in 1 .. MaxItems |-> NoOutcome]
    /\ calls' = [k \in 1 .. MaxItems |-> NoCalls]
    /\ delayMs' = [k \in 1 .. MaxItems |-> <<>>]
    /\ wait' = [k \in 1 .. MaxItems |-> <<>>]
    /\ exitCode' = [k \in 1 .. MaxItems |-> "none"]
    /\ settleOrder' = <<>>
    /\ UNCHANGED <<videos, concurrency, force, dirExists, pngs>>
    /\ UNCHANGED <<concVars, sanVars, upVars, findVars, urlVars, dlVars, allVars, mainVars,
                   sortVars, colabVars>>

\* ---------------------------------------------------- processSingleVideo
\* if (!options.force) { existingFrames = countExtractedFrames(dir); if (existingFrames > 0) ...
CacheHitIgnoringForce(k) == countExtractedFrames(k) > 0
CacheHitMoreThanOne(k) == ~force /\ countExtractedFrames(k) > 1
CacheHit(k) == ~force /\ countExtractedFrames(k) > 0

CacheCheck(k) ==
    /\ ipc[k] = "check"
    /\ IF CacheHit(k)
         THEN /\ outcome' = [outcome EXCEPT ![k] = CachedOutcome(k, countExtractedFrames(k))]
              /\ ipc' = [ipc EXCEPT ![k] = "settled"]
              /\ attempt' = attempt
              /\ settleOrder' = Append(settleOrder, k)
         ELSE /\ outcome' = outcome
              /\ ipc' = [ipc EXCEPT ![k] = "mkdir"]
              /\ attempt' = [attempt EXCEPT ![k] = 1]
              /\ settleOrder' = settleOrder
    /\ UNCHANGED <<schedVars, calls, delayMs, wait, exitCode, fsVars>>

\* Leaving the retry loop: await new Promise(r => setTimeout(r, 100 * index)).
StartStagger(k) ==
    /\ ipc' = [ipc EXCEPT ![k] = "stagger"]
    /\ attempt' = [attempt EXCEPT ![k] = 0]
    /\ delayMs' = [delayMs EXCEPT ![k] = <<StaggerMs * (k - 1)>>]

\* One pass of the retry loop with the directory already present: break.
MkdirPresent(k) ==
    /\ ipc[k] = "mkdir"
    /\ dirExists[k]
    /\ StartStagger(k)
    /\ UNCHANGED <<schedVars, outcome, calls, wait, exitCode, settleOrder, fsVars>>

\* mkdirSync creates the directory and existsSync confirms it: break.
MkdirCreated(k) ==
    /\ ipc[k] = "mkdir"
    /\ ~dirExists[k]
    /\ dirExists' = [dirExists EXCEPT ![k] = TRUE]
    /\ calls' = [calls EXCEPT ![k] = @ \cup {"mkdirSync"}]
    /\ StartStagger(k)
    /\ UNCHANGED <<schedVars, outcome, wait, exitCode, settleOrder, pngs, pngs0>>

\* mkdirSync throws: on the last attempt the catch block rethrows (outside any
\* try of processSingleVideo, so the promise rejects); otherwise back off.
MkdirThrows(k) ==
    /\ ipc[k] = "mkdir"
    /\ ~dirExists[k]
    /\ calls' = [calls EXCEPT ![k] = @ \cup {"mkdirSync"}]
    /\ IF attempt[k] = maxRetries
         THEN /\ ipc' = [ipc EXCEPT ![k] = "rejected"]
              /\ attempt' = [attempt EXCEPT ![k] = 0]
              /\ wait' = wait
         ELSE /\ ipc' = [ipc EXCEPT ![k] = "backoff"]
              /\ attempt' = attempt
              /\ wait' = [wait EXCEPT ![k] = <<BackoffMs * attempt[k]>>]
    /\ UNCHANGED <<schedVars, outcome, delayMs, exitCode, settleOrder, fsVars>>

\* mkdirSync returns but existsSync still reports no directory: no break and no
\* exception, so the loop goes straight to the next attempt, or ends after the last.
MkdirUnverified(k) ==
    /\ ipc[k] = "mkdir"
    /\ ~dirExists[k]
    /\ calls' = [calls EXCEPT ![k] = @ \cup {"mkdirSync"}]
    /\ IF attempt[k] < maxRetries
         THEN /\ attempt' = [attempt EXCEPT ![k] = @ + 1]
              /\ ipc' = ipc
              /\ delayMs' = delayMs
         ELSE StartStagger(k)
    /\ UNCHANGED <<schedVars, outcome, wait, exitCode, settleOrder, fsVars>>

\* The backoff timer fires: attempt++ and the loop body runs again.
BackoffExpire(k) ==
    /\ ipc[k] = "backoff"
    /\ Suspended
    /\ attempt' = [attempt EXCEPT ![k] = @ + 1]
    /\ ipc' = [ipc EXCEPT ![k] = "mkdir"]
    /\ wait' = [wait EXCEPT ![k] = <<>>]
    /\ UNCHANGED <<schedVars, outcome, calls, delayMs, exitCode, settleOrder, fsVars>>

\* The stagger timer fires: getVideoDuration(video.path) is started.
StaggerExpire(k) ==
    /\ ipc[k] = "stagger"
    /\ Suspended
    /\ ipc' = [ipc EXCEPT ![k] = "probe"]
    /\ calls' = [calls EXCEPT ![k] = @ \cup {"getVideoDuration"}]
    /\ UNCHANGED <<schedVars, attempt, outcome, delayMs, wait, exitCode, settleOrder, fsVars>>

\* ffprobe ends (a duration or null, never an error): extractFrames is started.
ProbeClose(k) ==
    /\ ipc[k] = "probe"
    /\ Suspended
    /\ ipc' = [ipc EXCEPT ![k] = "extract"]
    /\ calls' = [calls EXCEPT ![k] = @ \cup {"extractFrames"}]
    /\ UNCHANGED <<schedVars, attempt, outcome, delayMs, wait, exitCode, settleOrder, fsVars>>

\* What the catch block of processSingleVideo does with a failed extraction.
ExtractFailedRejects(k) ==
    /\ ipc' = [ipc EXCEPT ![k] = "rejected"]
    /\ outcome' = outcome
ExtractFailed(k) ==
    /\ ipc' = [ipc EXCEPT ![k] = "settled"]
    /\ outcome' = [outcome EXCEPT ![k] = FailureOutcome(k, "ffmpeg")]

\* ffmpeg ends. It may have written w frames (named by the pattern, overwriting)
\* whatever its exit code; it cannot exit 0 without an output directory.
ExtractClose(k) ==
    /\ ipc[k] = "extract"
    /\ Suspended
    /\ \E code \in {"zero", "nonzero"}, w \in 0 .. MaxFrames :
        /\ code = "zero" => dirExists[k]
        /\ ~dirExists[k] => w = 0
        /\ pngs' = [pngs EXCEPT ![k] = Max(@, w)]
        /\ exitCode' = [exitCode EXCEPT ![k] = code]
        /\ settleOrder' = Append(settleOrder, k)
        /\ IF code = "zero"
             THEN /\ ipc' = [ipc EXCEPT ![k] = "settled"]
                  /\ outcome' = [outcome EXCEPT ![k] = SuccessOutcome(k, Max(pngs[k], w))]
             ELSE ExtractFailed(k)
    /\ UNCHANGED <<schedVars, attempt, calls, delayMs, wait, dirExists, pngs0>>

Next ==
    \/ LoopHead
    \/ Dispatch
    \/ AwaitAll
    \/ BatchResolve
    \/ BatchReject
    \/ Accumulate
    \/ NextBatch
    \/ PrintSummary
    \/ MainCatch
    \/ Rerun
    \/ \E k \in Items : CacheCheck(k)
    \/ \E k \in Items : MkdirPresent(k)
    \/ \E k \in Items : MkdirCreated(k)
    \/ \E k \in Items : MkdirThrows(k)
    \/ \E k \in Items : MkdirUnverified(k)
    \/ \E k \in Items : BackoffExpire(k)
    \/ \E k \in Items : StaggerExpire(k)
    \/ \E k \in Items : ProbeClose(k)
    \/ \E k \in Items : ExtractClose(k)

vars == <<batchVars>>

\* Each specification drives one component; the others stay idle.
IdleBatch ==
    /\ videos = 0
    /\ concurrency = 1
    /\ force = FALSE
    /\ spc = "idle"
    /\ i = 0
    /\ bIdx = 0
    /\ batchResults = <<>>
    /\ results = <<>>
    /\ completed = 0
    /\ successCount = 0
    /\ cachedCount = 0
    /\ failCount = 0
    /\ totalFrames = 0
    /\ ipc = <<>>
    /\ attempt = <<>>
    /\ outcome = <<>>
    /\ calls = <<>>
    /\ delayMs = <<>>
    /\ wait = <<>>
    /\ exitCode = <<>>
    /\ settleOrder = <<>>
    /\ run = 0
    /\ prevExit = <<>>
    /\ pngs0 = <<>>
    /\ pngs = <<>>
    /\ dirExists = <<>>

IdleConc ==
    /\ cpuCount = 0
    /\ videoCount = 0
    /\ userConcurrency = <<>>
    /\ cpc = "idle"
    /\ resolved = <<>>

IdleSan ==
    /\ rawName = <<>>
    /\ sanPc = "idle"
    /\ once = <<>>
    /\ twice = <<>>

IdleUp ==
    /\ fileCount = 0
    /\ otherEntries = 0
    /\ deleteAfterUpload = FALSE
    /\ uploadConcurrency = 1
    /\ upc = "idle"
    /\ ui = 0
    /\ upload = <<>>
    /\ upSuccessCount = 0
    /\ upFailCount = 0
    /\ onDisk = {}
    /\ folderPresent = FALSE
    /\ unlinkThrew = {}
    /\ rmdirThrew = FALSE
    /\ deletedCount = 0
    /\ upResult = <<>>

IdleFind ==
    /\ tree = <<>>
    /\ allowed = {}
    /\ fpc = "idle"
    /\ found = <<>>
    /\ outDirs = <<>>

IdleUrls ==
    /\ fileLines = <<>>
    /\ content = <<>>
    /\ urlPc = "idle"
    /\ urls = <<>>
    /\ listed = <<>>

IdleDl ==
    /\ urlCount = 0
    /\ dlRequest = <<>>
    /\ dlConcurrency = 0
    /\ dpc = "idle"
    /\ di = 0
    /\ fetch = <<>>
    /\ attempts = <<>>
    /\ dlResults = <<>>
    /\ workList = <<>>
    /\ started = {}

IdleAll ==
    /\ folderFiles = <<>>
    /\ allDelete = FALSE
    /\ apc = "idle"
    /\ ai = 0
    /\ totalUploaded = 0
    /\ totalFailed = 0
    /\ totalDeleted = 0
    /\ actual = <<>>
    /\ allResult = <<>>

IdleMain ==
    /\ options = <<>>
    /\ env = <<>>
    /\ mpc = "idle"
    /\ exitStatus = <<>>
    /\ invoked = {}

IdleSort ==
    /\ frames = 0
    /\ padWidth = 0
    /\ waveSize = 1
    /\ sortPc = "idle"
    /\ sortedFiles = <<>>

IdleColab ==
    /\ hpc = "idle"
    /\ childCode = <<>>
    /\ hDirs = <<>>
    /\ hi = 0
    /\ hCopied = 0
    /\ hFailed = 0
    /\ notCopied = {}
    /\ localLeft = {}
    /\ helperExit = <<>>
    /\ hLog = <<>>

Init ==
    /\ InitBatch
    /\ IdleConc /\ IdleSan /\ IdleUp /\ IdleFind /\ IdleUrls /\ IdleDl /\ IdleAll /\ IdleMain /\ IdleSort
    /\ IdleColab

Spec == Init /\ [][Next]_vars

\* ============================================== concurrency resolution
\* Strings are sequences of one-character strings.
Auto == <<"a", "u", "t", "o">>

Digits == {"0", "1", "2", "3", "4", "5", "6", "7", "8", "9"}

DigitValue(c) ==
    CASE c = "0" -> 0 [] c = "1" -> 1 [] c = "2" -> 2 [] c = "3" -> 3 [] c = "4" -> 4
      [] c = "5" -> 5 [] c = "6" -> 6 [] c = "7" -> 7 [] c = "8" -> 8 [] c = "9" -> 9

\* The longest prefix of s made of decimal digits.
RECURSIVE DigitPrefix(_)
DigitPrefix(s) ==
    IF s = <<>> \/ Head(s) \notin Digits THEN <<>> ELSE <<Head(s)>> \o DigitPrefix(Tail(s))

\* The value of a sequence of digits, most significant first.
RECURSIVE DigitsValue(_)
DigitsValue(d) ==
    IF d = <<>> THEN 0 ELSE 10 * DigitsValue(SubSeq(d, 1, Len(d) - 1)) + DigitValue(d[Len(d)])

\* parseInt(s, 10): an optional sign, then the longest run of digits; what follows
\* is ignored. <<n>> is the number n, <<>> is NaN. (-0 is the number 0 here: both
\* are falsy and Math.min / Math.max treat them alike up to the sign of zero.)
ParseInt(s) ==
    LET signed == s # <<>> /\ Head(s) \in {"-", "+"}
        body == IF signed THEN Tail(s) ELSE s
        d == DigitPrefix(body)
    IN  IF d = <<>> THEN <<>>
        ELSE IF signed /\ Head(s) = "-" THEN <<0 - DigitsValue(d)>> ELSE <<DigitsValue(d)>>

\* a || b for a number-or-NaN a: NaN and 0 are falsy.
OrElseOne(a, b) == IF a = <<>> \/ a = <<0>> THEN 1 ELSE Head(a)
OrElse(a, b) == IF a = <<>> \/ a = <<0>> THEN b ELSE Head(a)

\* Math.max(1, Math.floor(cpuCount / 2))
DefaultConcurrencyAllCores(p) == Max(1, p)
DefaultConcurrency(p) == Max(1, p \div 2)

\* processVideos, lines 325-330.
ResolveProcessVideos(p, n, u) ==
    LET c == IF u = Auto
               THEN Min(DefaultConcurrency(p), n)
               ELSE Min(OrElse(ParseInt(u), DefaultConcurrency(p)), n)
    IN  Max(1, c)

\* processVideosFromList, lines 388-393.
ResolveFromList(p, n, u) ==
    LET c == IF u = Auto
               THEN Min(DefaultConcurrency(p), n)
               ELSE Min(OrElse(ParseInt(u), DefaultConcurrency(p)), n)
    IN  Max(1, c)

\* The --concurrency values tried: "auto" and every short string over RequestChars.
RequestChars == {"-", "0", "1", "3", "5", "x"}

RECURSIVE StringsUpTo(_, _)
StringsUpTo(alphabet, n) ==
    IF n = 0 THEN {<<>>}
    ELSE LET shorter == StringsUpTo(alphabet, n - 1)
         IN  shorter \cup {Append(t, c) : t \in shorter, c \in alphabet}

InitConc ==
    /\ cpuCount \in 1 .. MaxCpu
    /\ videoCount \in 0 .. MaxVideoCount
    /\ userConcurrency \in {Auto} \cup StringsUpTo(RequestChars, MaxRequestLen)
    /\ cpc = "start"
    /\ resolved = <<>>

\* if (videos.length === 0) return   (either entry point)
NoVideos ==
    /\ cpc = "start"
    /\ videoCount = 0
    /\ cpc' = "returned"
    /\ UNCHANGED <<concFixed, resolved>>

ProcessVideosResolve ==
    /\ cpc = "start"
    /\ videoCount > 0
    /\ resolved' = <<ResolveProcessVideos(cpuCount, videoCount, userConcurrency)>>
    /\ cpc' = "processVideos"
    /\ UNCHANGED concFixed

FromListResolve ==
    /\ cpc = "start"
    /\ videoCount > 0
    /\ resolved' = <<ResolveFromList(cpuCount, videoCount, userConcurrency)>>
    /\ cpc' = "processVideosFromList"
    /\ UNCHANGED concFixed

NextConc ==
    \/ NoVideos
    \/ ProcessVideosResolve
    \/ FromListResolve

InitConcSpec ==
    /\ InitConc
    /\ IdleBatch /\ IdleSan /\ IdleUp /\ IdleFind /\ IdleUrls /\ IdleDl /\ IdleAll /\ IdleMain /\ IdleSort
    /\ IdleColab

SpecConc == InitConcSpec /\ [][NextConc]_vars

\* ====================================================== sanitizeFilename
\* Names are sequences of one-character strings.

\* The ASCII characters two hex digits name in a percent escape, for the hex
\* digits of NameChars. Every other escape a name of NameChars can hold is
\* malformed ("%" not followed by two hex digits) and makes decodeURIComponent
\* throw URIError.
PercentDecoded == [pair \in {<<"2", "2">>} |-> "\""]

\* A position of an intermediate result that holds no character.
Dropped == "dropped"

Compact(t) == SelectSeq(t, LAMBDA c : c # Dropped)

\* Whether decodeURIComponent(s) returns (TRUE) or throws URIError (FALSE): every
\* "%" must start an escape. The two characters after an escape's "%" are hex
\* digits, so no "%" lies inside another escape.
Decodable(s) ==
    \A n \in 1 .. Len(s) :
        s[n] = "%" => (n + 2 <= Len(s) /\ <<s[n + 1], s[n + 2]>> \in DOMAIN PercentDecoded)

\* decodeURIComponent(s) for a decodable s: each escape becomes its character.
DecodeURIComponent(s) ==
    Compact([n \in 1 .. Len(s) |->
        IF s[n] = "%" THEN PercentDecoded[<<s[n + 1], s[n + 2]>>]
        ELSE IF (n > 1 /\ s[n - 1] = "%") \/ (n > 2 /\ s[n - 2] = "%") THEN Dropped
        ELSE s[n]])

\* try { if (sanitized.includes('%')) sanitized = decodeURIComponent(sanitized) } catch {}
TryDecode(s) ==
    IF \E n \in 1 .. Len(s) : s[n] = "%"
        THEN IF Decodable(s) THEN DecodeURIComponent(s) ELSE s
        ELSE s

\* s.replace(/[set]/g, ''): every character of the set is removed.
RemoveChars(s, set) == SelectSeq(s, LAMBDA c : c \notin set)

\* s.replace(/[set]/g, r): every character of the set becomes r.
ReplaceChars(s, set, r) == [n \in 1 .. Len(s) |-> IF s[n] \in set THEN r ELSE s[n]]

\* s.replace(/[set]+/g, r): every maximal run of characters of the set becomes one r
\* (written at the run's last position).
CollapseRuns(s, set, r) ==
    Compact([n \in 1 .. Len(s) |->
        IF s[n] \notin set THEN s[n]
        ELSE IF n < Len(s) /\ s[n + 1] \in set THEN Dropped
        ELSE r])

\* Whether "_-" or "-_" stands at position n of s.
PairAt(s, n) ==
    /\ 1 <= n
    /\ n < Len(s)
    /\ <<s[n], s[n + 1]>> \in {<<"_", "-">>, <<"-", "_">>}

\* Whether a match of /_-|-_/g starts at position n: matches are found left to
\* right and do not overlap, so in a stretch of consecutive positions where a
\* pair stands, every second one starts a match, from the first.
MatchStartsAt(s, n) ==
    /\ PairAt(s, n)
    /\ LET starts == {m \in 1 .. n : ~PairAt(s, m - 1)}
           first == CHOOSE m \in starts : \A q \in starts : q <= m
       IN  (n - first) % 2 = 0

\* s.replace(/_-|-_/g, '-')
ReplaceUnderscoreDash(s) ==
    Compact([n \in 1 .. Len(s) |->
        IF MatchStartsAt(s, n) THEN "-"
        ELSE IF MatchStartsAt(s, n - 1) THEN Dropped
        ELSE s[n]])

\* s.replace(/^[-_]+|[-_]+$/g, ''): the leading and the trailing run are removed.
TrimDashes(s) ==
    LET inner == {n \in 1 .. Len(s) : s[n] \notin {"-", "_"}}
    IN  IF inner = {} THEN <<>>
        ELSE SubSeq(s, CHOOSE n \in inner : \A m \in inner : n <= m,
                       CHOOSE n \in inner : \A m \in inner : n >= m)

\* s.substring(0, 100)
SubstringNoLimit(s, n) == s
Substring(s, n) == SubSeq(s, 1, Min(n, Len(s)))

Brackets == {"[", "]"}
InvalidChars == {"<", ">", ":", "\"", "/", "\\", "|", "?", "*"}
Parens == {"(", ")"}
\* (the class also holds the backquote, which no name tried here contains)
SpecialChars == {"&", "'", "~", "!", "@", "#", "$", "%", "^", "+", "=", "{", "}"}
Whitespace == {" "}

sanitizeFilename(filename) ==
    LET s0 == TryDecode(filename)
        s1 == RemoveChars(s0, Brackets)
        s2 == ReplaceChars(s1, InvalidChars, "_")
        s3 == RemoveChars(s2, Parens)
        s4 == RemoveChars(s3, SpecialChars)
        s5 == CollapseRuns(s4, Whitespace, "_")
        s6 == CollapseRuns(s5, {"."}, "_")
        s7 == CollapseRuns(s6, {"-"}, "-")
        s8 == CollapseRuns(s7, {"_"}, "_")
        s9 == ReplaceUnderscoreDash(s8)
        s10 == TrimDashes(s9)
    IN  Substring(s10, MaxNameLength)

\* The names tried: a run of "x" of one of PadLengths, then every string of at
\* most MaxTailLen characters of NameChars, or of at most MaxReservedLen
\* characters of ReservedChars (every character of the classes the replace chain
\* removes or replaces first). The long pad brings the name to the length limit.
NameChars == {"x", "_", "-", ".", " ", "%", "2", "/"}
ReservedChars == Brackets \cup InvalidChars \cup Parens \cup {"x"}
PadLengths == {0, 1, MaxNameLength - 2}
Pad(n) == [m \in 1 .. n |-> "x"]

InitSan ==
    /\ rawName \in {Pad(n) \o t : n \in PadLengths,
                                  t \in StringsUpTo(NameChars, MaxTailLen)
                                         \cup StringsUpTo(ReservedChars, MaxReservedLen)}
    /\ sanPc = "start"
    /\ once = <<>>
    /\ twice = <<>>

SanitizeOnce ==
    /\ sanPc = "start"
    /\ once' = sanitizeFilename(rawName)
    /\ sanPc' = "once"
    /\ UNCHANGED <<sanFixed, twice>>

SanitizeAgain ==
    /\ sanPc = "once"
    /\ twice' = sanitizeFilename(once)
    /\ sanPc' = "twice"
    /\ UNCHANGED <<sanFixed, once>>

NextSan ==
    \/ SanitizeOnce
    \/ SanitizeAgain

InitSanSpec ==
    /\ InitSan
    /\ IdleBatch /\ IdleConc /\ IdleUp /\ IdleFind /\ IdleUrls /\ IdleDl /\ IdleAll /\ IdleMain /\ IdleSort
    /\ IdleColab

SpecSan == InitSanSpec /\ [][NextSan]_vars

\* ===================================================== uploadVideoFrames
\* The .png files of the folder are numbered 1 .. fileCount in sorted order.
Files == 1 .. fileCount

\* files.slice(i, Math.min(i + concurrency, files.length)), as 1-based files.
WaveToEnd == (ui + 1) .. fileCount
Wave == (ui + 1) .. Min(ui + uploadConcurrency, fileCount)

InitUp ==
    /\ fileCount \in 0 .. MaxFiles
    /\ otherEntries \in 0 .. 1
    /\ deleteAfterUpload \in BOOLEAN
    /\ uploadConcurrency \in 1 .. MaxUploadConc
    /\ upc = "start"
    /\ ui = 0
    /\ upload = [f \in 1 .. MaxFiles |-> "idle"]
    /\ upSuccessCount = 0
    /\ upFailCount = 0
    /\ onDisk = 1 .. fileCount
    /\ folderPresent = TRUE
    /\ unlinkThrew = {}
    /\ rmdirThrew = FALSE
    /\ deletedCount = 0
    /\ upResult = <<>>

\* readdirSync(...).filter(.png).sort(); no file: return { success, uploaded: 0, deleted: 0 }.
\* Otherwise await getOrCreateFolder(auth, videoName, parentFolderId).
ListFiles ==
    /\ upc = "start"
    /\ IF fileCount = 0
         THEN /\ upc' = "returned"
              /\ upResult' = <<[success |-> TRUE, uploaded |-> 0, failed |-> <<>>, deleted |-> 0]>>
         ELSE /\ upc' = "folder"
              /\ upResult' = upResult
    /\ UNCHANGED <<upFixed, ui, upload, upSuccessCount, upFailCount,
                   onDisk, folderPresent, unlinkThrew, rmdirThrew, deletedCount>>

\* getOrCreateFolder answers: uploadFilesBatch starts.
FolderResolved ==
    /\ upc = "folder"
    /\ upc' = "loop"
    /\ UNCHANGED <<upFixed, ui, upload, upSuccessCount, upFailCount,
                   onDisk, folderPresent, unlinkThrew, rmdirThrew, deletedCount, upResult>>

\* getOrCreateFolder throws: uploadVideoFrames rejects.
FolderFails ==
    /\ upc = "folder"
    /\ upc' = "threw"
    /\ UNCHANGED <<upFixed, ui, upload, upSuccessCount, upFailCount,
                   onDisk, folderPresent, unlinkThrew, rmdirThrew, deletedCount, upResult>>

\* uploadFilesBatch: batch.map(async file => uploadFile(...)), then await Promise.all.
DispatchWave ==
    /\ upc = "loop"
    /\ ui < fileCount
    /\ upload' = [f \in 1 .. MaxFiles |-> IF f \in Wave THEN "uploading" ELSE upload[f]]
    /\ upc' = "await"
    /\ UNCHANGED <<upFixed, ui, upSuccessCount, upFailCount,
                   onDisk, folderPresent, unlinkThrew, rmdirThrew, deletedCount, upResult>>

\* drive.files.create answers for one file, or fails: the mapper catches the error
\* and resolves to { success: false }.
UploadSettles(f) ==
    /\ upc = "await"
    /\ upload[f] = "uploading"
    /\ \E r \in {"uploaded", "failed"} : upload' = [upload EXCEPT ![f] = r]
    /\ UNCHANGED <<upFixed, upc, ui, upSuccessCount, upFailCount,
                   onDisk, folderPresent, unlinkThrew, rmdirThrew, deletedCount, upResult>>

\* Promise.all fulfils; the wave's results are counted; i += concurrency.
WaveDone ==
    /\ upc = "await"
    /\ \A f \in Wave : upload[f] \in {"uploaded", "failed"}
    /\ upSuccessCount' = upSuccessCount + Cardinality({f \in Wave : upload[f] = "uploaded"})
    /\ upFailCount' = upFailCount + Cardinality({f \in Wave : upload[f] = "failed"})
    /\ ui' = ui + uploadConcurrency
    /\ upc' = "loop"
    /\ UNCHANGED <<upFixed, upload, onDisk, folderPresent, unlinkThrew, rmdirThrew,
                   deletedCount, upResult>>

\* uploadFilesBatch returns { results, successCount, failCount }.
BatchReturns ==
    /\ upc = "loop"
    /\ ui >= fileCount
    /\ upc' = "uploaded"
    /\ UNCHANGED <<upFixed, ui, upload, upSuccessCount, upFailCount,
                   onDisk, folderPresent, unlinkThrew, rmdirThrew, deletedCount, upResult>>

\* The files the deletion loop unlinks: for (const filePath of files) fs.unlinkSync(filePath).
ToUnlinkAllButLast == Files \ {fileCount}
ToUnlink == Files

\* if (deleteAfterUpload && successCount > 0)
ShouldDeleteWhenAsked == deleteAfterUpload
ShouldDelete == deleteAfterUpload /\ upSuccessCount > 0

\* The rest of uploadVideoFrames, which runs without suspending: the deletion
\* loop (an unlinkSync that throws leaves its file and is not counted), the
\* removal of the directory when readdirSync finds it empty (an error is
\* ignored), and the return.
DeleteAndReturn ==
    /\ upc = "uploaded"
    /\ IF ShouldDelete
         THEN \E kept \in SUBSET (ToUnlink \cap onDisk) :
                /\ onDisk' = (onDisk \ ToUnlink) \cup kept
                /\ unlinkThrew' = kept
                /\ deletedCount' = Cardinality((ToUnlink \cap onDisk) \ kept)
                /\ IF onDisk' = {} /\ otherEntries = 0
                     THEN /\ rmdirThrew' \in BOOLEAN
                          /\ folderPresent' = rmdirThrew'
                     ELSE /\ rmdirThrew' = FALSE
                          /\ folderPresent' = folderPresent
         ELSE UNCHANGED <<onDisk, deletedCount, folderPresent, unlinkThrew, rmdirThrew>>
    /\ upResult' = <<[success |-> upFailCount = 0, uploaded |-> upSuccessCount,
                      failed |-> <<upFailCount>>, deleted |-> deletedCount']>>
    /\ upc' = "returned"
    /\ UNCHANGED <<upFixed, ui, upload, upSuccessCount, upFailCount>>

NextUp ==
    \/ ListFiles
    \/ FolderResolved
    \/ FolderFails
    \/ DispatchWave
    \/ \E f \in Files : UploadSettles(f)
    \/ WaveDone
    \/ BatchReturns
    \/ DeleteAndReturn

InitUpSpec ==
    /\ InitUp
    /\ IdleBatch /\ IdleConc /\ IdleSan /\ IdleFind /\ IdleUrls /\ IdleDl /\ IdleAll /\ IdleMain /\ IdleSort
    /\ IdleColab

SpecUp == InitUpSpec /\ [][NextUp]_vars

\* ========================================================= findVideoFiles
\* A directory is the sequence of its entries in readdirSync order. An entry
\* has a name (a sequence of characters), the kind statSync reports ("file",
\* "dir", or "other" for what is neither, such as a FIFO) and, for a directory,
\* its own entries.
File(name) == [name |-> name, kind |-> "file", entries |-> <<>>]
Other(name) == [name |-> name, kind |-> "other", entries |-> <<>>]
Dir(name, entries) == [name |-> name, kind |-> "dir", entries |-> entries]

\* path.extname: from the last "." of the name to its end; empty when the name
\* has no "." or only a leading one.
LastDot(s) ==
    LET dots == {n \in 1 .. Len(s) : s[n] = "."}
    IN  IF dots = {} THEN 0 ELSE CHOOSE n \in dots : \A m \in dots : m <= n

Extname(s) == IF LastDot(s) <= 1 THEN <<>> ELSE SubSeq(s, LastDot(s), Len(s))

\* String.prototype.toLowerCase, on the letters the names tried hold.
ToLowerCaseKeep(s) == s
ToLowerCase(s) ==
    [n \in 1 .. Len(s) |-> CASE s[n] = "M" -> "m" [] s[n] = "P" -> "p" [] OTHER -> s[n]]

\* s.slice(1)
Slice1(s) == IF s = <<>> THEN <<>> ELSE Tail(s)

\* path.basename(item, ext): the name without the suffix ext, unless the name
\* is ext itself.
Basename(item, ext) ==
    IF /\ ext # <<>>
       /\ Len(item) > Len(ext)
       /\ SubSeq(item, Len(item) - Len(ext) + 1, Len(item)) = ext
        THEN SubSeq(item, 1, Len(item) - Len(ext))
        ELSE item

\* findVideoFiles(directory, extensions), the directory given by its path and
\* its entries: the work items in the order the code pushes them.
RECURSIVE findVideoFiles(_, _, _)
findVideoFiles(path, entries, extensions) ==
    IF entries = <<>> THEN <<>>
    ELSE LET item == Head(entries)
             ext == Slice1(ToLowerCase(Extname(item.name)))
             here ==
                 IF item.kind = "file"
                     THEN IF ext \in extensions
                              THEN <<[path |-> Append(path, item.name),
                                      name |-> Basename(item.name, Extname(item.name)),
                                      extension |-> ext]>>
                              ELSE <<>>
                 ELSE IF item.kind = "dir"
                     THEN findVideoFiles(Append(path, item.name), item.entries, extensions)
                 ELSE <<>>
         IN  here \o findVideoFiles(path, Tail(entries), extensions)

\* The trees tried: at most MaxRootEntries entries in the root, one entry less
\* in a subdirectory, names distinct within a directory.
FileNames ==
    {<<"m", ".", "m", "p", "4">>, <<"m", ".", "M", "P", "4">>, <<"m", ".", "t", "x", "t">>,
     <<".", "m", "p", "4">>, <<"m", "_", ".", "m", "p", "4">>}
OtherNames == {<<"p", ".", "m", "p", "4">>}
DirNames == {<<"d", ".", "m", "p", "4">>}
ExtensionLists == {{<<"m", "p", "4">>}, {<<"m", "p", "4">>, <<"t", "x", "t">>}}

SeqsUpTo(S, n) == UNION {[1 .. m -> S] : m \in 0 .. n}
DistinctNames(t) == \A a, b \in 1 .. Len(t) : a # b => t[a].name # t[b].name
Leaves == {File(n) : n \in FileNames} \cup {Other(n) : n \in OtherNames}
SubDirs ==
    {Dir(n, t) : n \in DirNames,
                 t \in {u \in SeqsUpTo(Leaves, MaxRootEntries - 1) : DistinctNames(u)}}
Trees == {t \in SeqsUpTo(Leaves \cup SubDirs, MaxRootEntries) : DistinctNames(t)}

InitFind ==
    /\ tree \in Trees
    /\ allowed \in ExtensionLists
    /\ fpc = "start"
    /\ found = <<>>
    /\ outDirs = <<>>

\* const videos = findVideoFiles(inputDir, extensions)
Scan ==
    /\ fpc = "start"
    /\ found' = findVideoFiles(<<>>, tree, allowed)
    /\ fpc' = "found"
    /\ UNCHANGED <<findFixed, outDirs>>

\* processSingleVideo, for each item of the list:
\* videoOutputDir = path.join(outputDir, sanitizeFilename(video.name))
AssignDirs ==
    /\ fpc = "found"
    /\ outDirs' = [k \in 1 .. Len(found) |-> sanitizeFilename(found[k].name)]
    /\ fpc' = "assigned"
    /\ UNCHANGED <<findFixed, found>>

NextFind ==
    \/ Scan
    \/ AssignDirs

InitFindSpec ==
    /\ InitFind
    /\ IdleBatch /\ IdleConc /\ IdleSan /\ IdleUp /\ IdleUrls /\ IdleDl /\ IdleAll /\ IdleMain /\ IdleSort
    /\ IdleColab

SpecFind == InitFindSpec /\ [][NextFind]_vars

\* ======================================================= readUrlsFromFile
\* What no step of readUrlsFromFile changes: the file, and the other components.
urlFixed == <<fileLines, content, coreVars, findVars, dlVars, allVars, mainVars, sortVars,
    colabVars>>

\* The lines a URL file is written with: the text of the line, and what the
\* documented file format makes of it (the line without the white space around
\* it, and whether it is a URL to download).
SampleLines ==
    {
     [raw |-> <<"#", " ", "c">>,
      trimmed |-> <<"#", " ", "c">>, url |-> FALSE],
     [raw |-> <<>>,
      trimmed |-> <<>>, url |-> FALSE],
     [raw |-> <<" ">>,
      trimmed |-> <<>>, url |-> FALSE],
     [raw |-> <<"h", "t", "t", "p", "s", ":", "/", "/", "a">>,
      trimmed |-> <<"h", "t", "t", "p", "s", ":", "/", "/", "a">>, url |-> TRUE],
     [raw |-> <<"h", "t", "t", "p", ":", "/", "/", "a">>,
      trimmed |-> <<"h", "t", "t", "p", ":", "/", "/", "a">>, url |-> TRUE],
     [raw |-> <<"f", "t", "p", ":", "/", "/", "b">>,
      trimmed |-> <<"f", "t", "p", ":", "/", "/", "b">>, url |-> FALSE],
     [raw |-> <<"h", "t", "t", "p", "x">>,
      trimmed |-> <<"h", "t", "t", "p", "x">>, url |-> FALSE],
     [raw |-> <<"h", "t", "t", "p", "/", "/", "a">>,
      trimmed |-> <<"h", "t", "t", "p", "/", "/", "a">>, url |-> FALSE],
     [raw |-> <<" ", " ", "h", "t", "t", "p", "s", ":", "/", "/", "a", "\r">>,
      trimmed |-> <<"h", "t", "t", "p", "s", ":", "/", "/", "a">>, url |-> TRUE],
     [raw |-> <<"#", "h", "t", "t", "p", ":", "/", "/", "a">>,
      trimmed |-> <<"#", "h", "t", "t", "p", ":", "/", "/", "a">>, url |-> FALSE],
     [raw |-> <<"\t", "h", "t", "t", "p", ":", "/", "/", "b", " ">>,
      trimmed |-> <<"h", "t", "t", "p", ":", "/", "/", "b">>, url |-> TRUE]
    }

\* The content of a file: its lines with a line feed between them.
RECURSIVE JoinLines(_)
JoinLines(ls) ==
    IF ls = <<>> THEN <<>>
    ELSE IF Len(ls) = 1 THEN ls[1].raw
    ELSE ls[1].raw \o <<"\n">> \o JoinLines(Tail(ls))

\* content.split('\n'): the pieces between the line feeds, one more than there
\* are line feeds.
SplitLines(text) ==
    LET feeds == {n \in 1 .. Len(text) : text[n] = "\n"}
        Feed(k) == CHOOSE n \in feeds : Cardinality({m \in feeds : m < n}) = k - 1
        count == Cardinality(feeds) + 1
    IN  [k \in 1 .. count |->
            SubSeq(text, IF k = 1 THEN 1 ELSE Feed(k - 1) + 1,
                         IF k = count THEN Len(text) ELSE Feed(k) - 1)]

\* String.prototype.trim: the white space at both ends is removed.
WhiteSpace == {" ", "\t", "\r", "\n"}
Trim(line) ==
    LET inner == {n \in 1 .. Len(line) : line[n] \notin WhiteSpace}
    IN  IF inner = {} THEN <<>>
        ELSE SubSeq(line, CHOOSE n \in inner : \A m \in inner : n <= m,
                          CHOOSE n \in inner : \A m \in inner : n >= m)

\* String.prototype.startsWith
StartsWith(line, prefix) ==
    Len(line) >= Len(prefix) /\ SubSeq(line, 1, Len(prefix)) = prefix

\* line && !line.startsWith('#') && (line.startsWith('http://') || line.startsWith('https://'))
KeepLineAnyHttp(line) ==
    line # <<>> /\ ~StartsWith(line, <<"#">>) /\ StartsWith(line, <<"h", "t", "t", "p">>)
KeepLine(line) ==
    /\ line # <<>>
    /\ ~StartsWith(line, <<"#">>)
    /\ \/ StartsWith(line, <<"h", "t", "t", "p", ":", "/", "/">>)
       \/ StartsWith(line, <<"h", "t", "t", "p", "s", ":", "/", "/">>)

\* readUrlsFromFile, for a file that exists (main checks it before the call).
readUrlsFromFile(text) ==
    LET lines == SplitLines(text)
        trimmed == [n \in 1 .. Len(lines) |-> Trim(lines[n])]
    IN  SelectSeq(trimmed, KeepLine)

InitUrls ==
    /\ fileLines \in SeqsUpTo(SampleLines, MaxLines)
    /\ content = JoinLines(fileLines)
    /\ urlPc = "start"
    /\ urls = <<>>
    /\ listed = <<>>

ReadUrls ==
    /\ urlPc = "start"
    /\ urls' = readUrlsFromFile(content)
    /\ urlPc' = "returned"
    /\ UNCHANGED <<urlFixed, listed>>

\* main, URL mode with --dry-run: line && !line.startsWith('#') && line.startsWith('http')
DryRunKeepLine(line) ==
    /\ line # <<>>
    /\ ~StartsWith(line, <<"#">>)
    /\ StartsWith(line, <<"h", "t", "t", "p">>)

\* The URLs the dry run prints: main reads the file itself.
dryRunUrls(text) ==
    LET lines == SplitLines(text)
        trimmed == [n \in 1 .. Len(lines) |-> Trim(lines[n])]
    IN  SelectSeq(trimmed, DryRunKeepLine)

\* The command is given with --dry-run over the same file (before or after the
\* real run): the list it prints.
DryRunList ==
    /\ urlPc \in {"start", "returned"}
    /\ listed = <<>>
    /\ listed' = <<dryRunUrls(content)>>
    /\ UNCHANGED <<urlFixed, urlPc, urls>>

NextUrls ==
    \/ ReadUrls
    \/ DryRunList

InitUrlsSpec ==
    /\ InitUrls
    /\ IdleBatch /\ IdleConc /\ IdleSan /\ IdleUp /\ IdleFind /\ IdleDl /\ IdleAll /\ IdleMain /\ IdleSort
    /\ IdleColab

SpecUrls == InitUrlsSpec /\ [][NextUrls]_vars

\* =================================================================== main
\* What no step of main changes: the command line, the environment, and the
\* other components.
mainFixed == <<options, env, coreVars, findVars, urlVars, dlVars, allVars, sortVars,
    colabVars>>

\* The --quality values tried: every short string over QualityChars.
QualityChars == {"-", "1", "9", "x"}

\* Which options the command line gives (--output is required by commander
\* and always there), and what main finds on the machine.
InitMain ==
    /\ options \in [input : BOOLEAN, urls : BOOLEAN, uploadDrive : BOOLEAN,
                     driveCredentials : BOOLEAN, driveFolder : BOOLEAN, dryRun : BOOLEAN,
                     quality : StringsUpTo(QualityChars, MaxQualityLen)]
    /\ env \in [credentialsFile : BOOLEAN, ffmpeg : BOOLEAN, urlFile : BOOLEAN,
                 inputExists : BOOLEAN, inputIsDirectory : BOOLEAN]
    /\ env.inputIsDirectory => env.inputExists
    /\ mpc = "start"
    /\ exitStatus = <<>>
    /\ invoked = {}

\* process.exit(1)
Exit1 ==
    /\ mpc' = "exited"
    /\ exitStatus' = <<1>>

\* if (!options.input && !options.urls) ... process.exit(1)
CheckInputs ==
    /\ mpc = "start"
    /\ IF ~options.input /\ ~options.urls
         THEN Exit1
         ELSE mpc' = "drive" /\ exitStatus' = exitStatus
    /\ UNCHANGED <<mainFixed, invoked>>

\* if (options.uploadDrive) { credentials given, folder given, credentials file there }
CheckDriveOptions ==
    /\ mpc = "drive"
    /\ IF /\ options.uploadDrive
          /\ \/ ~options.driveCredentials
             \/ ~options.driveFolder
             \/ ~env.credentialsFile
         THEN Exit1
         ELSE mpc' = "ffmpeg" /\ exitStatus' = exitStatus
    /\ UNCHANGED <<mainFixed, invoked>>

\* const ffmpegAvailable = await checkFfmpeg(); then, with --urls, await checkYtDlp(),
\* whose answer only changes a message; then the output directory is created.
CheckFfmpeg ==
    /\ mpc = "ffmpeg"
    /\ IF ~env.ffmpeg
         THEN Exit1
         ELSE mpc' = "quality" /\ exitStatus' = exitStatus
    /\ UNCHANGED <<mainFixed, invoked>>

\* const quality = parseInt(options.quality, 10);
\* if (isNaN(quality) || quality < 0 || quality > 9) ... process.exit(1)
QualityAccepted(q) ==
    LET quality == ParseInt(q)
    IN  ~(quality = <<>> \/ Head(quality) < 0 \/ Head(quality) > 9)

CheckQuality ==
    /\ mpc = "quality"
    /\ IF ~QualityAccepted(options.quality)
         THEN Exit1
         ELSE mpc' = "mode" /\ exitStatus' = exitStatus
    /\ UNCHANGED <<mainFixed, invoked>>

\* URL mode: the URL file must exist; a dry run lists the URLs and returns;
\* otherwise downloadAllVideos is called.
UrlMode ==
    /\ mpc = "mode"
    /\ options.urls
    /\ IF ~env.urlFile
         THEN Exit1 /\ invoked' = invoked
         ELSE IF options.dryRun
             THEN mpc' = "returned" /\ exitStatus' = <<0>> /\ invoked' = invoked
             ELSE /\ mpc' = "download"
                  /\ exitStatus' = exitStatus
                  /\ invoked' = invoked \cup {"downloadAllVideos"}
    /\ UNCHANGED mainFixed

\* downloadAllVideos returns the videos: none, and main returns; some, and
\* processVideosFromList is called.
Downloaded ==
    /\ mpc = "download"
    /\ \E some \in BOOLEAN :
          IF some
              THEN /\ mpc' = "extract"
                   /\ exitStatus' = exitStatus
                   /\ invoked' = invoked \cup {"processVideosFromList"}
              ELSE mpc' = "returned" /\ exitStatus' = <<0>> /\ invoked' = invoked
    /\ UNCHANGED mainFixed

\* Local mode: the input directory must exist and be a directory; then
\* processVideos is called.
LocalMode ==
    /\ mpc = "mode"
    /\ ~options.urls
    /\ IF ~env.inputExists \/ ~env.inputIsDirectory
         THEN Exit1 /\ invoked' = invoked
         ELSE /\ mpc' = "extract"
              /\ exitStatus' = exitStatus
              /\ invoked' = invoked \cup {"processVideos"}
    /\ UNCHANGED mainFixed

\* processVideos / processVideosFromList up to its call of processVideosParallel:
\* no video (processVideos only: main calls processVideosFromList with a list
\* that is not empty), return; if (dryRun) return; otherwise the batch starts.
ProcessVideosEntry ==
    /\ mpc = "extract"
    /\ \E some \in BOOLEAN :
          /\ options.urls => some
          /\ IF some /\ ~options.dryRun
                THEN /\ mpc' = "parallel"
                     /\ invoked' = invoked \cup {"processVideosParallel"}
                ELSE mpc' = "extracted" /\ invoked' = invoked
    /\ exitStatus' = exitStatus
    /\ UNCHANGED mainFixed

\* processVideosParallel returns, the summary is printed, and processVideos /
\* processVideosFromList returns.
ParallelReturns ==
    /\ mpc = "parallel"
    /\ mpc' = "extracted"
    /\ UNCHANGED <<mainFixed, exitStatus, invoked>>

\* if (options.uploadDrive && !options.dryRun)
UploadEnabledAlsoDry == options.uploadDrive
UploadEnabled == options.uploadDrive /\ ~options.dryRun

\* After the extraction step: uploadAllToGoogleDrive is called when asked for
\* and the run is not dry; otherwise main returns.
Extracted ==
    /\ mpc = "extracted"
    /\ IF UploadEnabled
         THEN /\ mpc' = "upload"
              /\ exitStatus' = exitStatus
              /\ invoked' = invoked \cup {"uploadAllToGoogleDrive"}
         ELSE mpc' = "returned" /\ exitStatus' = <<0>> /\ invoked' = invoked
    /\ UNCHANGED mainFixed

\* uploadAllToGoogleDrive returns, and main with it.
Uploaded ==
    /\ mpc = "upload"
    /\ mpc' = "returned"
    /\ exitStatus' = <<0>>
    /\ UNCHANGED <<mainFixed, invoked>>

\* The extraction or the upload throws: catch (error) { ...; process.exit(1) }
CatchError ==
    /\ mpc \in {"extract", "parallel", "upload"}
    /\ Exit1
    /\ UNCHANGED <<mainFixed, invoked>>

NextMain ==
    \/ CheckInputs
    \/ CheckDriveOptions
    \/ CheckFfmpeg
    \/ CheckQuality
    \/ UrlMode
    \/ Downloaded
    \/ LocalMode
    \/ ProcessVideosEntry
    \/ ParallelReturns
    \/ Extracted
    \/ Uploaded
    \/ CatchError

InitMainSpec ==
    /\ InitMain
    /\ IdleBatch /\ IdleConc /\ IdleSan /\ IdleUp /\ IdleFind /\ IdleUrls /\ IdleDl /\ IdleAll /\ IdleSort
    /\ IdleColab

SpecMain == InitMainSpec /\ [][NextMain]_vars

\* ================================================= uploadAllToGoogleDrive
\* What no step of uploadAllToGoogleDrive changes: the folders, the option, and
\* the other components.
allFixed == <<folderFiles, allDelete, coreVars, findVars, urlVars, dlVars, mainVars, sortVars,
    colabVars>>

\* folderFiles[n] is the number of .png files of the n-th folder of the output
\* directory. actual counts what happens to the files, whatever is reported.
InitAll ==
    /\ folderFiles \in SeqsUpTo(0 .. MaxFiles, MaxFolders)
    /\ allDelete \in BOOLEAN
    /\ apc = "connect"
    /\ ai = 0
    /\ totalUploaded = 0
    /\ totalFailed = 0
    /\ totalDeleted = 0
    /\ actual = [uploaded |-> 0, failed |-> 0, deleted |-> 0]
    /\ allResult = <<>>

\* uploader = await initDriveUploader(credentialsPath) answers; then the folders
\* are listed: none, return { success: true, uploaded: 0 }.
Connected ==
    /\ apc = "connect"
    /\ IF Len(folderFiles) = 0
         THEN /\ apc' = "returned"
              /\ allResult' = <<[success |-> TRUE, uploaded |-> 0,
                                 failed |-> <<>>, deleted |-> <<>>]>>
         ELSE /\ apc' = "loop"
              /\ allResult' = allResult
    /\ UNCHANGED <<allFixed, ai, totalUploaded, totalFailed, totalDeleted, actual>>

\* initDriveUploader throws: return { success: false, error }.
ConnectFails ==
    /\ apc = "connect"
    /\ apc' = "returned"
    /\ allResult' = <<[success |-> FALSE, uploaded |-> <<>>,
                       failed |-> <<>>, deleted |-> <<>>]>>
    /\ UNCHANGED <<allFixed, ai, totalUploaded, totalFailed, totalDeleted, actual>>

\* What uploadVideoFrames returns for a folder of n files of which ok were
\* uploaded, when the deletion loop, if it runs, is refused `refused` files.
uploadVideoFrames(n, ok, refused) ==
    IF n = 0 THEN [success |-> TRUE, uploaded |-> 0, failed |-> 0, deleted |-> 0]
    ELSE [success |-> (n - ok = 0), uploaded |-> ok, failed |-> n - ok,
          deleted |-> IF allDelete /\ ok > 0 THEN n - refused ELSE 0]

\* One turn of the loop over the folders: await uploader.uploadVideoFrames(...)
\* returns and its counts are added to the totals.
FolderUploaded ==
    /\ apc = "loop"
    /\ ai < Len(folderFiles)
    /\ LET n == folderFiles[ai + 1] IN
        \E ok \in 0 .. n, refused \in 0 .. n :
          LET result == uploadVideoFrames(n, ok, refused) IN
            /\ (allDelete /\ ok > 0) \/ refused = 0
            /\ totalUploaded' = totalUploaded + result.uploaded
            /\ totalDeleted' = IF result.success THEN totalDeleted + result.deleted
                                                 ELSE totalDeleted
            /\ totalFailed' = IF result.success THEN totalFailed
                                                ELSE totalFailed + result.failed
            /\ actual' = [uploaded |-> actual.uploaded + ok,
                          failed |-> actual.failed + (n - ok),
                          deleted |-> actual.deleted + result.deleted]
    /\ ai' = ai + 1
    /\ UNCHANGED <<allFixed, apc, allResult>>

\* uploadVideoFrames throws (getOrCreateFolder failed, before any upload):
\* catch (error) { totalFailed++ }. None of the folder's files is uploaded.
FolderThrows ==
    /\ apc = "loop"
    /\ ai < Len(folderFiles)
    /\ folderFiles[ai + 1] > 0
    /\ totalFailed' = totalFailed + 1
    /\ actual' = [actual EXCEPT !.failed = @ + folderFiles[ai + 1]]
    /\ ai' = ai + 1
    /\ UNCHANGED <<allFixed, apc, totalUploaded, totalDeleted, allResult>>

\* After the loop: the summary, and the aggregate outcome.
AllReturns ==
    /\ apc = "loop"
    /\ ai >= Len(folderFiles)
    /\ allResult' = <<[success |-> totalFailed = 0, uploaded |-> totalUploaded,
                       failed |-> totalFailed, deleted |-> totalDeleted]>>
    /\ apc' = "returned"
    /\ UNCHANGED <<allFixed, ai, totalUploaded, totalFailed, totalDeleted, actual>>

NextAll ==
    \/ Connected
    \/ ConnectFails
    \/ FolderUploaded
    \/ FolderThrows
    \/ AllReturns

InitAllSpec ==
    /\ InitAll
    /\ IdleBatch /\ IdleConc /\ IdleSan /\ IdleUp /\ IdleFind /\ IdleUrls /\ IdleDl /\ IdleMain /\ IdleSort
    /\ IdleColab

SpecAll == InitAllSpec /\ [][NextAll]_vars

\* ====================================================== downloadAllVideos
\* What no step of the download stage changes: the URL list, the --concurrency
\* value, and the other components.
dlFixed == <<urlCount, dlRequest, coreVars, findVars, urlVars, allVars, mainVars, sortVars,
    colabVars>>

\* The URLs of the list are numbered 1 .. urlCount in file order.
Urls == 1 .. urlCount

InitDl ==
    /\ urlCount \in 0 .. MaxUrls
    /\ dlRequest \in {Auto} \cup StringsUpTo(RequestChars, MaxRequestLen)
    /\ dlConcurrency = 0
    /\ dpc = "start"
    /\ di = 0
    /\ fetch = [u \in 1 .. MaxUrls |-> "idle"]
    /\ attempts = [u \in 1 .. MaxUrls |-> 0]
    /\ dlResults = <<>>
    /\ workList = <<>>
    /\ started = {}

\* main: downloadAllVideos(urlFile, downloadDir, parseInt(concurrency, 10) || 4, verbose).
\* downloadAllVideos: no URL, return []; otherwise the loop starts.
DlStart ==
    /\ dpc = "start"
    /\ dlConcurrency' = OrElse(ParseInt(dlRequest), DefaultDownloadConcurrency)
    /\ dpc' = IF urlCount = 0 THEN "returned" ELSE "loop"
    /\ UNCHANGED <<dlFixed, di, fetch, attempts, dlResults, workList, started>>

\* const batchSize = Math.min(concurrency, 3)
BatchSize == Min(dlConcurrency, DownloadLimit)

\* An index given to Array.prototype.slice: a negative one counts from the end.
SliceIndex(n, len) == IF n < 0 THEN Max(len + n, 0) ELSE Min(n, len)

\* urls.slice(i, Math.min(i + batchSize, urls.length)), as 1-based URLs.
DlBatchFrom == SliceIndex(di, urlCount)
DlBatchTo == SliceIndex(Min(di + BatchSize, urlCount), urlCount)
DlBatch == (DlBatchFrom + 1) .. DlBatchTo

\* for (let i = 0; i < urls.length; i += batchSize): batch.map(async url => ...)
\* calls downloadVideo for each URL of the batch; then await Promise.all.
DlDispatch ==
    /\ dpc = "loop"
    /\ di < urlCount
    /\ fetch' = [u \in 1 .. MaxUrls |-> IF u \in DlBatch THEN "fetching" ELSE fetch[u]]
    /\ attempts' = [u \in 1 .. MaxUrls |-> IF u \in DlBatch THEN attempts[u] + 1
                                                             ELSE attempts[u]]
    /\ dpc' = "await"
    /\ UNCHANGED <<dlFixed, dlConcurrency, di, dlResults, workList, started>>

\* downloadVideo settles for one URL: the file was there (cached), the download
\* succeeded, or it threw and the mapper's catch made a failure result of it.
FetchSettles(u) ==
    /\ dpc = "await"
    /\ fetch[u] = "fetching"
    /\ \E r \in {"cached", "downloaded", "failed"} : fetch' = [fetch EXCEPT ![u] = r]
    /\ UNCHANGED <<dlFixed, dlConcurrency, dpc, di, attempts, dlResults, workList, started>>

\* Promise.all fulfils: results.push(...batchResults); i += batchSize.
\* (A batch size below zero moves i backwards for ever; every i <= -urls.length
\* gives the same empty batch, and i is followed down to -MaxRewind.)
DlBatchDone ==
    /\ dpc = "await"
    /\ \A u \in DlBatch : fetch[u] # "fetching"
    /\ dlResults' = dlResults \o [n \in 1 .. Cardinality(DlBatch) |-> DlBatchFrom + n]
    /\ di' = Max(di + BatchSize, 0 - MaxRewind)
    /\ dpc' = "loop"
    /\ UNCHANGED <<dlFixed, dlConcurrency, fetch, attempts, workList, started>>

\* return results.filter(r => r.success).map(...)
Fetched(u) == fetch[u] \in {"cached", "downloaded"}

DlReturn ==
    /\ dpc = "loop"
    /\ di >= urlCount
    /\ workList' = SelectSeq(dlResults, Fetched)
    /\ dpc' = "returned"
    /\ UNCHANGED <<dlFixed, dlConcurrency, di, fetch, attempts, dlResults, started>>

\* main: if (videos.length === 0) return; otherwise processVideosFromList.
MainAfterDownload ==
    /\ dpc = "returned"
    /\ IF workList = <<>>
         THEN dpc' = "ended" /\ started' = started
         ELSE dpc' = "extracting" /\ started' = started \cup {"processVideosFromList"}
    /\ UNCHANGED <<dlFixed, dlConcurrency, di, fetch, attempts, dlResults, workList>>

\* main: after the extraction, uploadAllToGoogleDrive when --upload-drive is set.
MainAfterExtraction ==
    /\ dpc = "extracting"
    /\ \E uploadDrive \in BOOLEAN :
          started' = IF uploadDrive THEN started \cup {"uploadAllToGoogleDrive"} ELSE started
    /\ dpc' = "ended"
    /\ UNCHANGED <<dlFixed, dlConcurrency, di, fetch, attempts, dlResults, workList>>

NextDl ==
    \/ DlStart
    \/ DlDispatch
    \/ \E u \in Urls : FetchSettles(u)
    \/ DlBatchDone
    \/ DlReturn
    \/ MainAfterDownload
    \/ MainAfterExtraction

InitDlSpec ==
    /\ InitDl
    /\ IdleBatch /\ IdleConc /\ IdleSan /\ IdleUp /\ IdleFind /\ IdleUrls /\ IdleAll /\ IdleMain /\ IdleSort
    /\ IdleColab

SpecDl == InitDlSpec /\ [][NextDl]_vars

\* Every step of the download stage that can be taken is eventually taken: the
\* event loop runs each pending callback, and every download settles (the
\* direct download has a 60 s timeout, the external downloader exits).
SpecDlFair == SpecDl /\ WF_vars(NextDl)

\* ============================================ the file list of a folder
\* What no step changes here: the frames, the pattern, the wave size, and the
\* other components.
sortFixed == <<frames, padWidth, waveSize, coreVars, findVars, urlVars, dlVars, allVars,
               mainVars,
    colabVars>>

\* The decimal digits of n >= 0, most significant first.
RECURSIVE Decimal(_)
Decimal(n) ==
    LET last == CHOOSE c \in Digits : DigitValue(c) = n % 10
    IN  IF n < 10 THEN <<last>> ELSE Append(Decimal(n \div 10), last)

\* The name ffmpeg gives frame n under the pattern frame_%0<w>d.png (w = 1 is
\* frame_%d.png): the number, with zeros before it up to w digits.
FrameName(n, w) ==
    LET d == Decimal(n)
        zeros == [k \in 1 .. Max(w - Len(d), 0) |-> "0"]
    IN  <<"f", "r", "a", "m", "e", "_">> \o zeros \o d \o <<".", "p", "n", "g">>

\* The UTF-16 code unit of a character of a frame name.
CharCode(c) ==
    CASE c = "." -> 46 [] c \in Digits -> 48 + DigitValue(c) [] c = "_" -> 95
      [] c = "a" -> 97 [] c = "e" -> 101 [] c = "f" -> 102 [] c = "g" -> 103
      [] c = "m" -> 109 [] c = "n" -> 110 [] c = "p" -> 112 [] c = "r" -> 114

\* The order Array.prototype.sort() puts strings in: by code unit at the first
\* position where they differ, a proper prefix first.
LexLess(a, b) ==
    LET differ == {k \in 1 .. Min(Len(a), Len(b)) : a[k] # b[k]}
        first == CHOOSE k \in differ : \A m \in differ : k <= m
    IN  IF differ = {} THEN Len(a) < Len(b)
        ELSE CharCode(a[first]) < CharCode(b[first])

\* names.sort(), for distinct names. (Every path of the list has the same
\* directory before the name, which does not change the order.)
Sort(names) ==
    [k \in 1 .. Cardinality(names) |->
        CHOOSE x \in names : Cardinality({y \in names : LexLess(y, x)}) = k - 1]

\* The widths of the patterns tried: frame_%d.png, frame_%02d.png and the
\* default, frame_%06d.png.
PadWidths == {1, 2, 6}

InitSort ==
    /\ frames \in 0 .. MaxSortFrames
    /\ padWidth \in PadWidths
    /\ waveSize \in 1 .. MaxWaveSize
    /\ sortPc = "start"
    /\ sortedFiles = <<>>

\* files = readdirSync(dir).filter(f => f.endsWith('.png')).map(...).sort(),
\* in a folder that holds the frames 1 .. frames ffmpeg wrote.
ListSorted ==
    /\ sortPc = "start"
    /\ sortedFiles' = Sort({FrameName(n, padWidth) : n \in 1 .. frames})
    /\ sortPc' = "sorted"
    /\ UNCHANGED sortFixed

NextSort == ListSorted

InitSortSpec ==
    /\ InitSort
    /\ IdleBatch /\ IdleConc /\ IdleSan /\ IdleUp /\ IdleFind /\ IdleUrls /\ IdleDl /\ IdleAll
    /\ IdleMain
    /\ IdleColab

SpecSort == InitSortSpec /\ [][NextSort]_vars

\* ============================================ colab_helper.js, command full
\* What no step of the helper changes: the other components.
colabFixed == <<coreVars, findVars, urlVars, dlVars, allVars, mainVars, sortVars>>

\* The files of the local temporary directory: file f of video directory n,
\* for a directory holding dirs[n] files.
LocalFiles(dirs) == UNION {{<<n, f>> : f \in 1 .. dirs[n]} : n \in 1 .. Len(dirs)}

\* The code of the close event when a signal ended the child: null.
NullCode == 0 - 1

InitColab ==
    /\ hpc = "start"
    /\ childCode = <<>>
    /\ hDirs = <<>>
    /\ hi = 0
    /\ hCopied = 0
    /\ hFailed = 0
    /\ notCopied = {}
    /\ localLeft = {}
    /\ helperExit = <<>>
    /\ hLog = <<>>

\* case 'full': without a Drive directory among the arguments, process.exit(1);
\* otherwise the extraction child is spawned.
HelperStart ==
    /\ hpc = "start"
    /\ \E driveDir \in BOOLEAN :
          IF driveDir
              THEN hpc' = "extracting" /\ hLog' = <<"extract">> /\ helperExit' = helperExit
              ELSE hpc' = "exited" /\ hLog' = hLog /\ helperExit' = <<1>>
    /\ UNCHANGED <<colabFixed, childCode, hDirs, hi, hCopied, hFailed, notCopied, localLeft>>

\* if (code !== 0) { ...; process.exit(code) }
ExtractionFailedNever(code) == FALSE
ExtractionFailed(code) == code # 0

\* proc.on('close', async (code) => ...): the child has ended, leaving the video
\* directories dirs in the local temporary directory. process.exit(null) ends
\* the helper with status 0.
ChildClose ==
    /\ hpc = "extracting"
    /\ \E code \in {NullCode} \cup 0 .. MaxExitCode,
          dirs \in SeqsUpTo(0 .. MaxFiles, MaxFolders) :
          /\ childCode' = <<code>>
          /\ hDirs' = dirs
          /\ localLeft' = LocalFiles(dirs)
          /\ IF ExtractionFailed(code)
                THEN /\ hpc' = "exited"
                     /\ helperExit' = <<IF code = NullCode THEN 0 ELSE code>>
                     /\ hLog' = hLog
                ELSE /\ hpc' = "copy"
                     /\ helperExit' = helperExit
                     /\ hLog' = Append(hLog, "copy")
    /\ UNCHANGED <<colabFixed, hi, hCopied, hFailed, notCopied>>

\* copyToDrive, one video directory: await copyDirBatched(srcDir, destDir, quiet).
\* Each file is found at the destination or copied (copied++), or copyFileSync
\* throws (failed++). (Past BATCH_SIZE = 100 files the loop also waits DELAY_MS
\* between batches of a directory, which changes no count.)
CopyDir ==
    /\ hpc = "copy"
    /\ hi < Len(hDirs)
    /\ \E failed \in SUBSET (1 .. hDirs[hi + 1]) :
          /\ hCopied' = hCopied + (hDirs[hi + 1] - Cardinality(failed))
          /\ hFailed' = hFailed + Cardinality(failed)
          /\ notCopied' = notCopied \cup {<<hi + 1, f>> : f \in failed}
    /\ hi' = hi + 1
    /\ UNCHANGED <<colabFixed, hpc, childCode, hDirs, localLeft, helperExit, hLog>>

\* statSync, readdirSync or mkdirSync(dest) throws in copyToDrive: the promise
\* of the close handler rejects and nothing handles it, which ends the process
\* (status 1) or, on an older runtime, only prints a warning (status 0).
CopyThrows ==
    /\ hpc = "copy"
    /\ hi < Len(hDirs)
    /\ hpc' = "crashed"
    /\ \E status \in {0, 1} : helperExit' = <<status>>
    /\ UNCHANGED <<colabFixed, childCode, hDirs, hi, hCopied, hFailed, notCopied,
                   localLeft, hLog>>

\* copyToDrive returns; then, without suspending, cleanupLocal(LOCAL_TEMP):
\* fs.rmSync(localDir, { recursive: true, force: true }), and the helper ends.
CopyReturnsCleanup ==
    /\ hpc = "copy"
    /\ hi >= Len(hDirs)
    /\ hLog' = Append(hLog, "cleanup")
    /\ localLeft' = {}
    /\ hpc' = "done"
    /\ helperExit' = <<0>>
    /\ UNCHANGED <<colabFixed, childCode, hDirs, hi, hCopied, hFailed, notCopied>>

NextColab ==
    \/ HelperStart
    \/ ChildClose
    \/ CopyDir
    \/ CopyThrows
    \/ CopyReturnsCleanup

InitColabSpec ==
    /\ InitColab
    /\ IdleBatch /\ IdleConc /\ IdleSan /\ IdleUp /\ IdleFind /\ IdleUrls /\ IdleDl /\ IdleAll
    /\ IdleMain /\ IdleSort

SpecColab == InitColabSpec /\ [][NextColab]_vars

\* ================================================================ claims
\* Activations that have been dispatched and have not settled.
InFlight == {k \in Items : ipc[k] \notin {"idle", "settled", "rejected"}}

\* The chunk (0-based) an item belongs to.
ChunkOf(k) == (k - 1) \div concurrency

SumCounts == successCount + cachedCount + failCount

\* C1: at most `concurrency` processSingleVideo activations are in flight
\* (dispatched and not yet settled) in every reachable state.
C1_InFlightBounded == Cardinality(InFlight) <= concurrency

C1_Witness ==
    /\ concurrency = 2
    /\ videos = 3
    /\ \E a, b \in Items : a # b /\ ipc[a] = "extract" /\ ipc[b] = "extract"

\* C2: an item of a later chunk is dispatched only after every item of each
\* earlier chunk has settled and its outcome has been recorded in the totals.
C2_Barrier ==
    \A a, b \in Items :
        (ChunkOf(a) < ChunkOf(b) /\ ipc[b] # "idle") =>
            /\ ipc[a] = "settled"
            /\ a <= completed
            /\ a <= Len(results)
            /\ results[a] = outcome[a]

C2_Witness ==
    /\ videos = 3
    /\ concurrency = 2
    /\ ipc[3] = "extract"
    /\ exitCode[1] = "zero"
    /\ exitCode[2] = "nonzero"

\* C3: an extraction failure is confined to its item: the item gets a Failure
\* outcome, the scheduler never ends by throwing because of it, and a run that
\* returns has one outcome per item, in order, with every failed extraction in
\* failCount and every other item in successCount or cachedCount.
C3_ExtractionFailureIsolated ==
    /\ \A k \in Items : exitCode[k] = "nonzero" =>
          /\ ipc[k] = "settled"
          /\ ~outcome[k].success
          /\ outcome[k].error # <<>>
    /\ spc = "aborted" => \E k \in Items : ipc[k] = "rejected" /\ exitCode[k] = "none"
    /\ spc = "done" =>
          /\ Len(results) = videos
          /\ \A k \in Items : results[k].index = k - 1
          /\ failCount = Cardinality({k \in Items : exitCode[k] = "nonzero"})
          /\ successCount + cachedCount = videos - failCount

C3_Witness ==
    /\ spc = "done"
    /\ videos = 3
    /\ exitCode = <<"zero", "nonzero", "zero">>
    /\ successCount = 2
    /\ failCount = 1
    /\ Len(results) = 3

\* C4, as claimed: when directory creation fails on every attempt the activation
\* returns a Failure outcome instead of throwing and the batch is not aborted.
C4_DirFailureConfined ==
    /\ \A k \in Items : ipc[k] # "rejected"
    /\ spc # "aborted"

\* C5: without force, an item whose directory holds N >= 1 frames settles at once
\* as a cached success with frameCount N and elapsed time 0; nothing is invoked
\* for it (mkdir, stagger delay, probe, extractor) and its directory is unchanged.
C5_CacheHit ==
    \A k \in Items :
        (~force /\ pngs0[k] > 0 /\ ipc[k] \notin {"idle", "check"}) =>
            /\ ipc[k] = "settled"
            /\ outcome[k].success
            /\ outcome[k].cached
            /\ outcome[k].frameCount = <<pngs0[k]>>
            /\ outcome[k].elapsedTime = <<"0.00">>
            /\ outcome[k].error = <<>>
            /\ calls[k] = {}
            /\ delayMs[k] = <<>>
            /\ exitCode[k] = "none"
            /\ pngs[k] = pngs0[k]
            /\ dirExists[k]

C5_Witness ==
    \E k, m \in Items :
        /\ ipc[k] = "settled"
        /\ outcome[k].cached
        /\ outcome[k].frameCount = <<MaxFrames>>
        /\ ipc[m] = "extract"

Resolving == cpc \in {"processVideos", "processVideosFromList"}

\* C7: with p >= 1 CPUs and n >= 1 items, "auto" resolves to
\* min(max(1, floor(p / 2)), n), in processVideos and in processVideosFromList.
C7_AutoResolution ==
    (Resolving /\ userConcurrency = Auto) =>
        resolved = <<Min(Max(1, cpuCount \div 2), videoCount)>>

C7_Witness ==
    /\ cpc = "processVideosFromList"
    /\ userConcurrency = Auto
    /\ cpuCount = 4
    /\ videoCount = 8
    /\ resolved = <<2>>

\* A request that is an integer literal: an optional minus sign and digits only.
IsIntegerLiteral(u) ==
    LET body == IF u # <<>> /\ Head(u) = "-" THEN Tail(u) ELSE u
    IN  body # <<>> /\ \A n \in 1 .. Len(body) : body[n] \in Digits

IntegerLiteralValue(u) ==
    IF Head(u) = "-" THEN 0 - DigitsValue(Tail(u)) ELSE DigitsValue(u)

\* C8, as claimed: every integer request r, 0 and negatives included, resolves
\* to max(1, min(r, n)) whatever the CPU count.
C8_NumericResolution ==
    (Resolving /\ IsIntegerLiteral(userConcurrency)) =>
        resolved = <<Max(1, Min(IntegerLiteralValue(userConcurrency), videoCount))>>

\* C9, as claimed: with deleteAfterUpload, a file whose upload failed is still on
\* disk, in its folder, when uploadVideoFrames has returned.
C9_DeleteOnlyUploaded ==
    upc = "returned" =>
        \A f \in Files : upload[f] = "failed" => (f \in onDisk /\ folderPresent)

\* C10, as claimed: sanitizing a sanitized name changes nothing.
C10_Idempotent == sanPc = "twice" => twice = once

\* The characters no sanitized name may hold.
Forbidden == {"[", "]", "<", ">", ":", "\"", "/", "\\", "|", "?", "*", "(", ")"}

\* C11: a sanitized name has at most 100 characters and none of the characters
\* [ ] < > : " / \ | ? * ( ), also when percent-decoding produced one of them.
C11_LengthAndAlphabet ==
    sanPc # "start" =>
        /\ Len(once) <= 100
        /\ \A n \in 1 .. Len(once) : once[n] \notin Forbidden

C11_Witness ==
    /\ sanPc = "once"
    /\ Len(rawName) > 100
    /\ Decodable(rawName)
    /\ \E n \in 1 .. Len(rawName) : rawName[n] = "%"
    /\ Len(once) = 100

\* The states in which the run of main has ended.
RunEnded == spc \in {"summary", "exited"}

\* C15, as claimed: a run that got as far as the batch never ends without
\* the summary line, whatever happened to its items.
C15_SummaryAlwaysPrinted == RunEnded => spc = "summary"

\* C16, as claimed: when the scheduler has ended, by returning or otherwise,
\* every item of the work list has been processed and has an outcome.
C16_EveryItemProcessed ==
    spc \in {"done", "aborted"} =>
        \A k \in Items : ipc[k] = "settled" /\ outcome[k] # NoOutcome

\* C18: with deleteAfterUpload, when every .png file of the folder has been
\* uploaded, every file is unlinked: the files left are those the file system
\* refused to delete, the outcome counts the others, and when none was refused
\* deleted = uploaded = the number of files, and the folder, then empty, is
\* removed (unless rmdirSync itself failed, which is ignored).
C18_AllUploadedAllDeleted ==
    (/\ upc = "returned"
     /\ deleteAfterUpload
     /\ fileCount > 0
     /\ \A f \in Files : upload[f] = "uploaded") =>
        /\ onDisk = unlinkThrew
        /\ upResult[1].uploaded = fileCount
        /\ upResult[1].deleted = fileCount - Cardinality(unlinkThrew)
        /\ unlinkThrew = {} =>
              /\ onDisk = {}
              /\ upResult[1].deleted = upResult[1].uploaded
              /\ (otherEntries = 0 /\ ~rmdirThrew) => ~folderPresent

C18_Witness ==
    /\ upc = "returned"
    /\ deleteAfterUpload
    /\ fileCount = 3
    /\ \A f \in Files : upload[f] = "uploaded"
    /\ upResult[1].deleted = 3
    /\ onDisk = {}
    /\ ~folderPresent

\* C12, as claimed: any two distinct work items of a discovered list have
\* distinct output directories.
C12_DisjointDirectories ==
    fpc = "assigned" =>
        \A a, b \in 1 .. Len(outDirs) : a # b => outDirs[a] # outDirs[b]

\* The paths of the regular files of the tree, at any depth.
RegularFiles ==
    {<<e.name>> : e \in {tree[n] : n \in {m \in 1 .. Len(tree) : tree[m].kind = "file"}}}
    \cup UNION {{<<tree[n].name, tree[n].entries[m].name>> :
                    m \in {q \in 1 .. Len(tree[n].entries) : tree[n].entries[q].kind = "file"}} :
                 n \in {q \in 1 .. Len(tree) : tree[q].kind = "dir"}}

\* Whether the name ends in "." and the extension a, in any letter case, after
\* a stem that is not empty (a name such as .mp4 is a hidden file without
\* extension).
EndsWithExtension(name, a) ==
    /\ Len(name) > Len(a) + 1
    /\ name[Len(name) - Len(a)] = "."
    /\ \A n \in 1 .. Len(a) :
          LET c == name[Len(name) - Len(a) + n]
          IN  c = a[n] \/ <<c, a[n]>> \in {<<"M", "m">>, <<"P", "p">>}

\* C13: the scan returns one work item for each regular file, at any depth,
\* whose extension is allowed, whatever its letter case, and no other item; the
\* item's name is the file name without the dot and the extension; no step
\* changes the tree.
C13_ExactDiscovery ==
    /\ [](fpc # "start" =>
            /\ {found[k].path : k \in 1 .. Len(found)}
                   = {p \in RegularFiles : \E a \in allowed : EndsWithExtension(p[Len(p)], a)}
            /\ \A j, k \in 1 .. Len(found) : j # k => found[j].path # found[k].path
            /\ \A k \in 1 .. Len(found) :
                  LET file == found[k].path[Len(found[k].path)]
                  IN  \E a \in allowed :
                        /\ EndsWithExtension(file, a)
                        /\ found[k].extension = a
                        /\ found[k].name = SubSeq(file, 1, Len(file) - Len(a) - 1))
    /\ [][tree' = tree]_vars

C13_Witness ==
    /\ fpc = "found"
    /\ allowed = {<<"m", "p", "4">>}
    /\ Len(tree) = 2
    /\ tree[1] = File(<<"m", ".", "t", "x", "t">>)
    /\ tree[2] = Dir(<<"d", ".", "m", "p", "4">>, <<File(<<"m", ".", "M", "P", "4">>)>>)
    /\ Len(found) = 1
    /\ found[1].name = <<"m">>

\* C14: readUrlsFromFile returns, in file order, the trimmed text of exactly the
\* lines that are URLs to download (not empty, not a comment, beginning with
\* http:// or https://).
C14_UrlLines ==
    urlPc = "returned" =>
        LET kept == SelectSeq(fileLines, LAMBDA l : l.url)
        IN  urls = [n \in 1 .. Len(kept) |-> kept[n].trimmed]

C14_Witness ==
    /\ urlPc = "returned"
    /\ Len(fileLines) = 3
    /\ fileLines[1].raw = <<"#", " ", "c">>
    /\ fileLines[2].raw = <<" ", " ", "h", "t", "t", "p", "s", ":", "/", "/", "a", "\r">>
    /\ fileLines[3].raw = <<"f", "t", "p", ":", "/", "/", "b">>
    /\ urls = <<<<"h", "t", "t", "p", "s", ":", "/", "/", "a">>>>

\* A quality level as documented: an integer from 0 to 9.
QualityValid(q) ==
    IsIntegerLiteral(q) /\ IntegerLiteralValue(q) >= 0 /\ IntegerLiteralValue(q) <= 9

\* The fatal preconditions of a run (the input directory counts in local mode,
\* the URL file in URL mode).
FatalPrecondition ==
    \/ ~options.input /\ ~options.urls
    \/ ~options.urls /\ (~env.inputExists \/ ~env.inputIsDirectory)
    \/ options.urls /\ ~env.urlFile
    \/ ~QualityValid(options.quality)
    \/ ~env.ffmpeg
    \/ options.uploadDrive /\ (~options.driveCredentials \/ ~options.driveFolder)

\* C17, as claimed: when a fatal precondition fails, main never returns
\* normally (it exits with a nonzero status) and never invokes the download,
\* the extraction or the upload.
C17_FatalPreconditions ==
    FatalPrecondition =>
        /\ invoked = {}
        /\ mpc # "returned"
        /\ exitStatus \in {<<>>, <<1>>}

\* C19, as claimed: the totals uploadAllToGoogleDrive reports after its loop are
\* the numbers of files uploaded, of files not uploaded, and of local files
\* deleted, over all folders.
C19_AggregateIsSum ==
    (apc = "returned" /\ ai > 0) =>
        /\ allResult[1].uploaded = actual.uploaded
        /\ allResult[1].failed = actual.failed
        /\ allResult[1].deleted = actual.deleted

\* The download stage has handed its work list to main.
Handed == dpc \in {"returned", "extracting", "ended"}

\* C20, as claimed: the download stage always comes to hand over its work
\* list; by then every URL of the list has been attempted exactly once, and the
\* list holds exactly the URLs fetched or cached, in list order; extraction and
\* upload start only if some URL was fetched.
C20_FetchFailureConfined ==
    /\ <>Handed
    /\ [](Handed =>
            /\ \A u \in Urls : attempts[u] = 1
            /\ workList = SelectSeq([u \in 1 .. urlCount |-> u], Fetched))
    /\ [](started # {} => \E u \in Urls : Fetched(u))

\* The operations a dry run must not perform: the download, the batch (which
\* creates the per-video directories and runs the extraction), the upload.
Effectful == {"downloadAllVideos", "processVideosParallel", "uploadAllToGoogleDrive"}

\* C21: with --dry-run, in local and in URL mode, main never calls the
\* download, the batch (directory creation and extraction) or the upload, and
\* a dry run in URL mode that passes the checks returns without calling
\* the extraction stage at all.
C21_DryRunNoEffects ==
    options.dryRun =>
        /\ invoked \cap Effectful = {}
        /\ mpc \notin {"download", "parallel", "upload"}
        /\ options.urls => invoked = {}

C21_Witness ==
    /\ options.dryRun
    /\ ~options.urls
    /\ options.uploadDrive
    /\ mpc = "returned"
    /\ invoked = {"processVideos"}
    /\ exitStatus = <<0>>

\* A request that is not numeric: after an optional sign it does not begin
\* with a digit, so that no integer can be read from it.
NotNumeric(u) ==
    LET body == IF u # <<>> /\ Head(u) \in {"-", "+"} THEN Tail(u) ELSE u
    IN  u # Auto /\ (body = <<>> \/ Head(body) \notin Digits)

\* C22: an explicit request that is not numeric resolves to what "auto"
\* resolves to for the same CPU count p and item count n,
\* min(max(1, floor(p / 2)), n), at both entry points.
C22_NonNumericIsAuto ==
    (Resolving /\ NotNumeric(userConcurrency)) =>
        /\ resolved = <<Min(Max(1, cpuCount \div 2), videoCount)>>
        /\ resolved = <<ResolveProcessVideos(cpuCount, videoCount, Auto)>>

C22_Witness ==
    /\ cpc = "processVideos"
    /\ userConcurrency = <<"x", "3">>
    /\ cpuCount = 6
    /\ videoCount = 8
    /\ resolved = <<3>>

\* The items that have been handed to processSingleVideo.
Dispatched == {k \in Items : ipc[k] # "idle"}

\* The chunks are contiguous and of `concurrency` items, the last one possibly
\* smaller, and the items dispatched so far are those of the chunks before the
\* current one and the first bIdx of the current one.
C23_Chunks ==
    /\ i % concurrency = 0
    /\ i < videos => (BatchLen = concurrency \/ (BatchEnd = videos /\ BatchLen >= 1))
    /\ spc = "dispatch" => Dispatched = 1 .. (i + bIdx)
    /\ spc \in {"await", "accumulate"} => Dispatched = 1 .. BatchEnd
    /\ spc = "loop" => Dispatched = 1 .. Min(i, videos)

\* No item is handed to processSingleVideo a second time.
C23_NeverTwice ==
    [][\A k \in Items : (ipc[k] \notin {"idle", "check"}) => ipc'[k] # "check"]_vars

\* C23, as claimed: the work list is dispatched in contiguous chunks of
\* `concurrency` items (the last may be smaller), no item twice, and when the
\* scheduler has ended no item has been skipped.
C23_PartitionExactlyOnce ==
    /\ C23_Chunks
    /\ spc \in {"done", "aborted", "summary", "exited"} => Dispatched = Items

\* C24, as claimed: the staggered-start delay of an item that is not cached
\* is 100 ms times its index within its chunk, hence at most
\* 100 ms x (concurrency - 1) wherever the item stands in the list.
C24_StaggerWithinChunk ==
    \A k \in Items :
        delayMs[k] # <<>> =>
            /\ delayMs[k] = <<100 * ((k - 1) % concurrency)>>
            /\ Head(delayMs[k]) <= 100 * (concurrency - 1)

\* At most 3 attempts; a wait is 500 ms times the number of the attempt that
\* has just failed, and none follows the third attempt.
C25_Waits ==
    \A k \in Items :
        /\ attempt[k] <= 3
        /\ wait[k] # <<>> =>
              (ipc[k] = "backoff" /\ attempt[k] < 3 /\ wait[k] = <<500 * attempt[k]>>)

\* An attempt that leaves the directory in place ends the loop at once.
C25_SuccessEndsLoop ==
    [][\A k \in Items : (ipc[k] = "mkdir" /\ dirExists'[k]) => ipc'[k] = "stagger"]_vars

\* C25, as claimed: directory creation is attempted at most 3 times for an
\* item, the attempt after the k-th failed one (k < 3) starts only after a
\* wait of 500 ms x k, no wait follows the last attempt, and a successful
\* attempt ends the loop.
C25_RetryBackoff ==
    /\ [][\A k \in Items :
            (attempt[k] >= 1 /\ attempt'[k] = attempt[k] + 1) =>
                wait[k] = <<500 * attempt[k]>>]_vars
    /\ []C25_Waits
    /\ C25_SuccessEndsLoop

\* uploadFilesBatch has been called and has returned.
UploadBatchReturned == upc = "uploaded" \/ (upc = "returned" /\ fileCount > 0)

\* The wave (0-based) a file belongs to.
WaveOf(f) == (f - 1) \div uploadConcurrency

\* C26: uploadFilesBatch has at most `concurrency` uploads in flight; a file of
\* a later wave is attempted only when every file of the earlier waves has
\* settled; no file is attempted twice; and when it returns every file has
\* been attempted, whatever failed before it, and successCount + failCount is
\* the number of files.
C26_UploadWaves ==
    /\ [](Cardinality({f \in Files : upload[f] = "uploading"}) <= uploadConcurrency)
    /\ [](\A f, g \in Files :
            (WaveOf(f) < WaveOf(g) /\ upload[g] # "idle") =>
                upload[f] \in {"uploaded", "failed"})
    /\ [](UploadBatchReturned =>
            /\ \A f \in Files : upload[f] \in {"uploaded", "failed"}
            /\ upSuccessCount = Cardinality({f \in Files : upload[f] = "uploaded"})
            /\ upFailCount = Cardinality({f \in Files : upload[f] = "failed"})
            /\ upSuccessCount + upFailCount = fileCount)
    /\ [][\A f \in Files :
            (upload[f] \notin {"idle", "uploading"}) => upload'[f] # "uploading"]_vars

C26_Witness ==
    /\ upc = "uploaded"
    /\ fileCount = 3
    /\ uploadConcurrency = 2
    /\ upload = <<"failed", "uploaded", "uploaded">>
    /\ upSuccessCount = 2
    /\ upFailCount = 1

\* The frame number in a frame name: the digits between frame_ and .png.
FrameNumber(name) == DigitsValue(SubSeq(name, 7, Len(name) - 4))

\* C27, as claimed: in the sorted file list of a folder, a frame with a smaller
\* frame number is never in a later upload wave than a frame with a larger
\* one, whatever the numeric pattern and the number of frames.
C27_UploadOrderIsFrameOrder ==
    sortPc = "sorted" =>
        \A a, b \in 1 .. Len(sortedFiles) :
            FrameNumber(sortedFiles[a]) < FrameNumber(sortedFiles[b]) =>
                (a - 1) \div waveSize <= (b - 1) \div waveSize

\* uploadVideoFrames has ended, by returning or by throwing.
UploadEnded == upc \in {"returned", "threw"}

\* C28: the folder and its files are as they were, and nothing is counted as
\* deleted, in every state of an upload without deleteAfterUpload, of an
\* upload of a folder without image file (for which no remote folder is
\* looked up either), and at the end of an upload in which no file was uploaded.
C28_FolderUntouched ==
    (\/ ~deleteAfterUpload
     \/ fileCount = 0
     \/ UploadEnded /\ \A f \in Files : upload[f] # "uploaded") =>
        /\ onDisk = 1 .. fileCount
        /\ folderPresent
        /\ deletedCount = 0
        /\ fileCount = 0 => upc \in {"start", "returned"}
        /\ upc = "returned" => upResult[1].deleted = 0

C28_Witness ==
    /\ upc = "returned"
    /\ deleteAfterUpload
    /\ fileCount = 3
    /\ otherEntries = 0
    /\ \A f \in Files : upload[f] = "failed"
    /\ onDisk = {1, 2, 3}
    /\ folderPresent

\* C29: with force, no activation returns a cached outcome; an activation
\* that returns has invoked the extraction engine and its outcome is a
\* non-cached success or a failure; and an item whose directory already holds
\* frames never leaves processSingleVideo by throwing.
C29_ForceNeverCached ==
    force =>
        \A k \in Items :
            /\ ~outcome[k].cached
            /\ ipc[k] = "settled" =>
                  /\ "extractFrames" \in calls[k]
                  /\ exitCode[k] # "none"
                  /\ \/ outcome[k] = SuccessOutcome(k, pngs[k])
                     \/ outcome[k] = FailureOutcome(k, "ffmpeg")
            /\ pngs0[k] > 0 => ipc[k] # "rejected"

C29_Witness ==
    \E k \in Items :
        /\ force
        /\ pngs0[k] = MaxFrames
        /\ ipc[k] = "settled"
        /\ "extractFrames" \in calls[k]
        /\ outcome[k].success
        /\ ~outcome[k].cached

\* The outcomes processSingleVideo has returned, and those the scheduler holds.
Returned(k) == ipc[k] = "settled"

\* C30: every outcome returned is exactly one variant: a success has a
\* frameCount and no error, a failure an error and no frameCount; cached is
\* set only on a success with at least one frame; a non-cached success counts
\* the .png files its directory holds after the extraction; and the scheduler
\* records the outcomes as returned.
C30_OutcomeVariants ==
    /\ \A k \in Items :
          Returned(k) =>
              LET o == outcome[k] IN
                /\ o.success => (o.frameCount # <<>> /\ o.error = <<>>)
                /\ ~o.success => (o.error # <<>> /\ o.frameCount = <<>>)
                /\ o.cached => (o.success /\ Head(o.frameCount) >= 1)
                /\ (o.success /\ ~o.cached) =>
                      (exitCode[k] = "zero" /\ o.frameCount = <<countExtractedFrames(k)>>)
    /\ \A n \in 1 .. Len(results) : Returned(n) /\ results[n] = outcome[n]

C30_Witness ==
    \E a, b, c \in Items :
        /\ Returned(a) /\ Returned(b) /\ Returned(c)
        /\ outcome[a].cached
        /\ outcome[b].success /\ ~outcome[b].cached /\ outcome[b].frameCount = <<MaxFrames>>
        /\ ~outcome[c].success
        /\ pngs[c] = MaxFrames

\* Whether s is the beginning of t.
IsPrefix(s, t) == Len(s) <= Len(t) /\ s = SubSeq(t, 1, Len(s))

\* C31: the steps of full start in the order extract, copy, cleanup; copy
\* starts only after the child has exited with code 0; cleanup starts only
\* when every video directory has been copied; and after a nonzero exit code
\* nothing is copied or cleaned up and the helper exits with that code.
C31_FullOrder ==
    /\ IsPrefix(hLog, <<"extract", "copy", "cleanup">>)
    /\ Len(hLog) >= 2 => childCode = <<0>>
    /\ Len(hLog) >= 3 => hi = Len(hDirs)
    /\ (childCode # <<>> /\ Head(childCode) > 0) =>
          /\ hLog = <<"extract">>
          /\ hCopied = 0 /\ hFailed = 0
          /\ localLeft = LocalFiles(hDirs)
          /\ hpc = "exited"
          /\ helperExit = childCode

C31_Witness ==
    /\ hpc = "done"
    /\ hLog = <<"extract", "copy", "cleanup">>
    /\ childCode = <<0>>
    /\ hDirs = <<MaxFiles, 1>>
    /\ hCopied = MaxFiles + 1
    /\ localLeft = {}

\* C38, as claimed: when the copy has reported a failed file, the files that
\* were not copied are still in the local temporary directory when full ends.
C38_CleanupOnlyIfAllCopied ==
    (hpc \in {"done", "crashed"} /\ hFailed > 0) => notCopied \subseteq localLeft

\* Whether path.join(outputRoot, name) is a direct child of outputRoot: the
\* name is not empty, is not "." or "..", and holds no separator.
DirectChild(name) ==
    /\ name # <<>>
    /\ name \notin {<<".">>, <<".", ".">>}
    /\ \A n \in 1 .. Len(name) : name[n] \notin {"/", "\\"}

\* The sanitized name leads to no path outside outputRoot.
C32_Inside ==
    sanPc # "start" =>
        /\ once \notin {<<".">>, <<".", ".">>}
        /\ \A n \in 1 .. Len(once) : once[n] \notin {"/", "\\"}

\* C32, as claimed: for every item name (which is not empty), the output
\* directory outputRoot/<sanitized name> is a direct child of outputRoot,
\* never outputRoot itself and never a path outside it.
C32_DirectChildOfRoot ==
    (sanPc # "start" /\ rawName # <<>>) => DirectChild(once)

\* C33: for every interleaving of the completions of a batch, the results
\* sequence of processVideosParallel, which is also the order in which the
\* outcomes are reported and accumulated, is the submission order: its n-th
\* entry is the outcome of the n-th submitted item.
C33_ResultsInSubmissionOrder ==
    \A n \in 1 .. Len(results) :
        /\ results[n] = outcome[n]
        /\ results[n].index = n - 1

\* Two items of one batch settle against their submission order, and the run
\* accumulates every outcome.
C33_Witness ==
    /\ spc = "summary"
    /\ videos = 3
    /\ concurrency = 2
    /\ Len(results) = 3
    /\ settleOrder = <<2, 1, 3>>

\* C34: across successive runs without force, no item whose latest extraction
\* in an earlier run failed is reported as cached; it is extracted again.
C34_FailedNeverCached ==
    (run > 1 /\ ~force) =>
        \A k \in Items :
            (outcome[k] # NoOutcome /\ outcome[k].cached) => prevExit[k] # "nonzero"

\* C35: the extraction engine is invoked for an item only if the item's output
\* directory exists when the directory-creation step has ended.
C35_ExtractOnlyWithDirectory ==
    \A k \in Items : "extractFrames" \in calls[k] => dirExists[k]

\* The downloads in flight.
Fetching == {u \in Urls : fetch[u] = "fetching"}

\* C36: whatever --concurrency is given ("auto", zero, positive, negative),
\* downloadAllVideos terminates having attempted each URL exactly once: at most
\* three downloads are ever in flight, a batch starts only when every download
\* of the batch before has settled, at the head of the loop the URLs attempted
\* (once each) are exactly those before the loop index, and each batch moves
\* the index forward.
C36_DownloadTerminates ==
    /\ [](Cardinality(Fetching) <= DownloadLimit)
    /\ [](dpc = "loop" =>
            /\ Fetching = {}
            /\ \A u \in Urls : attempts[u] = IF u <= di THEN 1 ELSE 0)
    /\ [][(dpc = "await" /\ dpc' = "loop") => di' > di]_vars
    /\ <>(Handed /\ \A u \in Urls : attempts[u] = 1)

\* C37: the URLs a dry run in URL mode lists are exactly the URLs a real run
\* over the same file attempts to download, in the same order.
C37_DryRunListsAttempted ==
    (urlPc = "returned" /\ listed # <<>>) => listed[1] = urls
====
